---- MODULE Spec2Model ----
(***************************************************************************)
(* A model of the invoice_extractor core: template matching and scoring,   *)
(* regular-expression field extraction, template (de)serialisation and     *)
(* template learning (templates.py, template_learning.py).                 *)
(*                                                                         *)
(* Python strings that the code inspects (texts, keywords, transforms,     *)
(* captured values) are sequences of one-character strings.  Names that    *)
(* are only copied and compared are TLA+ strings.  A regular expression    *)
(* source is its syntax tree; the search is the backtracking search of     *)
(* Python's re module (leftmost start, greedy priority order).             *)
(*                                                                         *)
(* A local variable of the code that is read more than once is the         *)
(* parameter of a local operator applied to its value.                     *)
(***************************************************************************)
EXTENDS Integers, Sequences, FiniteSets, TLC

(***************************************************************************)
(* Characters and str methods                                              *)
(***************************************************************************)
UpperChars == <<"A","B","C","D","E","F","G","H","I","J","K","L","M",
                "N","O","P","Q","R","S","T","U","V","W","X","Y","Z">>

LowerChars == <<"a","b","c","d","e","f","g","h","i","j","k","l","m",
                "n","o","p","q","r","s","t","u","v","w","x","y","z">>

Range(f) == { f[k] : k \in DOMAIN f }

Digits == {"0","1","2","3","4","5","6","7","8","9"}

Letters == Range(UpperChars) \cup Range(LowerChars)

\* str.isspace / the class \s of re for the characters of the model
Whitespace == {" ", "\n", "\t", "\r"}

\* the line boundaries of str.splitlines among the characters of the model
LineBreaks == {"\n", "\r"}

\* the letters of the other case
ToLower == [c \in Range(UpperChars) |->
               LowerChars[CHOOSE k \in DOMAIN UpperChars : UpperChars[k] = c]]

ToUpper == [c \in Range(LowerChars) |->
               UpperChars[CHOOSE k \in DOMAIN LowerChars : LowerChars[k] = c]]

LowerChar(c) == IF c \in DOMAIN ToLower THEN ToLower[c] ELSE c

UpperChar(c) == IF c \in DOMAIN ToUpper THEN ToUpper[c] ELSE c

\* str.lower
Lower(s) == [k \in 1..Len(s) |-> LowerChar(s[k])]

\* s[a:b] with 1-based a and exclusive b
Slice(s, a, b) == [k \in 1..(b - a) |-> s[a + k - 1]]

\* str.strip
Strip(s) ==
    LET keep == { k \in 1..Len(s) : s[k] \notin Whitespace }
    IN  IF keep = {} THEN <<>>
        ELSE LET a == CHOOSE k \in keep : \A j \in keep : k <= j
                 b == CHOOSE k \in keep : \A j \in keep : k >= j
             IN  Slice(s, a, b + 1)

\* str.find on 1-based positions: the first position of sub in s, 0 if none
Find(s, sub) ==
    LET hits == { k \in 1..(Len(s) - Len(sub) + 1) :
                      Slice(s, k, k + Len(sub)) = sub }
    IN  IF hits = {} THEN 0 ELSE CHOOSE k \in hits : \A j \in hits : k <= j

\* the operator `in` on two strings
Contains(s, sub) == Find(s, sub) # 0

\* str.replace(ch, "")
RECURSIVE Remove(_, _)
Remove(s, ch) ==
    IF s = <<>> THEN <<>>
    ELSE IF Head(s) = ch THEN Remove(Tail(s), ch)
    ELSE <<Head(s)>> \o Remove(Tail(s), ch)

\* str.replace(ch, by) for single characters
Replace(s, ch, by) == [k \in 1..Len(s) |-> IF s[k] = ch THEN by ELSE s[k]]

\* str.splitlines
RECURSIVE SplitLines(_)
SplitLines(s) ==
    IF s = <<>> THEN <<>>
    ELSE LET brk == { k \in 1..Len(s) : s[k] \in LineBreaks }
         IN  IF brk = {} THEN <<s>>
             ELSE LET b == CHOOSE k \in brk : \A j \in brk : k <= j
                      \* "\r\n" is one boundary
                      n == IF s[b] = "\r" /\ b < Len(s) /\ s[b + 1] = "\n"
                           THEN b + 2 ELSE b + 1
                  IN  <<Slice(s, 1, b)>> \o SplitLines(Slice(s, n, Len(s) + 1))

(***************************************************************************)
(* Regular expressions (the re module)                                     *)
(*                                                                         *)
(* A pattern source is a sequence of nodes, each a record                  *)
(*   t  : "set" (one character of a class), "rep" (greedy repetition),     *)
(*        "alt" (alternation), "grp" (capturing group)                     *)
(*   s  : the characters of a class;  neg : the class is negated           *)
(*   xs : the alternatives of "alt" (pattern sources), or the single body  *)
(*        of "rep" and "grp"                                               *)
(*   lo, hi : the repetition bounds (hi = Inf: unbounded)                  *)
(*   n  : the number of a capturing group                                  *)
(***************************************************************************)
Inf == 0 - 1

Set(chars) == [t |-> "set", s |-> chars, neg |-> FALSE, xs |-> <<>>, lo |-> 1, hi |-> 1, n |-> 0]

NotSet(chars) == [t |-> "set", s |-> chars, neg |-> TRUE, xs |-> <<>>, lo |-> 1, hi |-> 1, n |-> 0]

Rep(body, lo, hi) == [t |-> "rep", s |-> {}, neg |-> FALSE, xs |-> <<body>>, lo |-> lo, hi |-> hi, n |-> 0]

Alt(alternatives) == [t |-> "alt", s |-> {}, neg |-> FALSE, xs |-> alternatives, lo |-> 1, hi |-> 1, n |-> 0]

Grp(num, body) == [t |-> "grp", s |-> {}, neg |-> FALSE, xs |-> <<body>>, lo |-> 1, hi |-> 1, n |-> num]

\* a literal string as a pattern source (what re.escape(token) denotes)
Lit(str) == [k \in 1..Len(str) |-> Set({str[k]})]

Star(body) == Rep(body, 0, Inf)

Plus(body) == Rep(body, 1, Inf)

Opt(body) == Rep(body, 0, 1)

\* the number of capturing groups of a pattern source (re.Pattern.groups)
RECURSIVE NGroups(_)
NGroups(p) ==
    IF p = <<>> THEN 0
    ELSE LET nd == Head(p)
             here == CASE nd.t = "grp" -> 1 + NGroups(nd.xs[1])
                       [] nd.t = "rep" -> NGroups(nd.xs[1])
                       [] nd.t = "alt" ->
                            LET RECURSIVE sum(_)
                                sum(k) == IF k > Len(nd.xs) THEN 0
                                          ELSE NGroups(nd.xs[k]) + sum(k + 1)
                            IN  sum(1)
                       [] OTHER -> 0
         IN  here + NGroups(Tail(p))

\* one character against a class; ic: re.IGNORECASE
CharMatches(c, nd, ic) ==
    LET inset == \/ c \in nd.s
                 \/ ic /\ (LowerChar(c) \in nd.s \/ UpperChar(c) \in nd.s)
    IN  inset # nd.neg

Unset == <<0, 0>>

NoCaps(p) == [k \in 1..NGroups(p) |-> Unset]

(***************************************************************************)
(* MatchAt(p, txt, i, caps, ic): every way pattern source p matches txt    *)
(* from position i, in the order in which the backtracking matcher tries   *)
(* them; each is the end position (exclusive) and the group spans.  The    *)
(* match re reports is the first one.                                      *)
(***************************************************************************)
RECURSIVE MatchAt(_, _, _, _, _), MatchRep(_, _, _, _, _, _), MatchAlt(_, _, _, _, _, _), Continue(_, _, _, _, _)
MatchAt(p, txt, i, caps, ic) ==
    IF p = <<>> THEN << [e |-> i, c |-> caps] >>
    ELSE LET nd == Head(p)
             first ==
               CASE nd.t = "set" ->
                      IF i <= Len(txt) /\ CharMatches(txt[i], nd, ic)
                      THEN << [e |-> i + 1, c |-> caps] >> ELSE <<>>
                 [] nd.t = "rep" -> MatchRep(nd, 0, txt, i, caps, ic)
                 [] nd.t = "alt" -> MatchAlt(nd, 1, txt, i, caps, ic)
                 [] nd.t = "grp" ->
                      LET inner == MatchAt(nd.xs[1], txt, i, caps, ic)
                      IN  [k \in 1..Len(inner) |->
                             [e |-> inner[k].e,
                              c |-> [inner[k].c EXCEPT ![nd.n] = <<i, inner[k].e>>]]]
         IN  Continue(first, Tail(p), txt, 1, ic)

\* the rest of the pattern after each way its first node matched
Continue(first, rest, txt, k, ic) ==
    IF k > Len(first) THEN <<>>
    ELSE MatchAt(rest, txt, first[k].e, first[k].c, ic)
         \o Continue(first, rest, txt, k + 1, ic)

\* greedy: one more repetition is tried before stopping
MatchRep(nd, count, txt, i, caps, ic) ==
    LET more == IF nd.hi = Inf \/ count < nd.hi
                THEN LET once == MatchAt(nd.xs[1], txt, i, caps, ic)
                         RECURSIVE each(_)
                         each(k) ==
                           IF k > Len(once) THEN <<>>
                           ELSE (IF once[k].e > i
                                 THEN MatchRep(nd, count + 1, txt, once[k].e, once[k].c, ic)
                                 ELSE <<>>)
                                \o each(k + 1)
                     IN  each(1)
                ELSE <<>>
        stop == IF count >= nd.lo THEN << [e |-> i, c |-> caps] >> ELSE <<>>
    IN  more \o stop

MatchAlt(nd, k, txt, i, caps, ic) ==
    IF k > Len(nd.xs) THEN <<>>
    ELSE MatchAt(nd.xs[k], txt, i, caps, ic) \o MatchAlt(nd, k + 1, txt, i, caps, ic)

\* a compiled pattern: re.compile(source, flags)
Compile(source, flags) == [pattern |-> source, flags |-> flags]

NoMatch == [found |-> FALSE, start |-> 0, end |-> 0, caps |-> <<>>]

\* re.Pattern.search: the first match at the leftmost start position;
\* at(caps, i) is the matches that start at position i
Search(re, txt) ==
    LET ic == "I" \in re.flags
        at(caps, i) == MatchAt(re.pattern, txt, i, caps, ic)
        leftmost(caps, starts) ==
          IF starts = {} THEN NoMatch
          ELSE LET i == CHOOSE k \in starts : \A j \in starts : k <= j
                   first(ms) == [found |-> TRUE, start |-> i, end |-> ms[1].e, caps |-> ms[1].c]
               IN  first(at(caps, i))
        from(caps) == leftmost(caps, { i \in 1..(Len(txt) + 1) : at(caps, i) # <<>> })
    IN  from(NoCaps(re.pattern))

\* re.fullmatch
FullMatch(re, txt) ==
    LET ms == MatchAt(re.pattern, txt, 1, NoCaps(re.pattern), "I" \in re.flags)
    IN  \E k \in 1..Len(ms) : ms[k].e = Len(txt) + 1

(***************************************************************************)
(* re.Match.group(g): the outcome is the captured text, None for a group   *)
(* that took no part in the match, or IndexError for a group the pattern   *)
(* does not have.                                                          *)
(***************************************************************************)
MatchGroup(re, txt, m, g) ==
    IF g < 0 \/ g > NGroups(re.pattern) THEN [kind |-> "IndexError", v |-> <<>>]
    ELSE IF g = 0 THEN [kind |-> "str", v |-> Slice(txt, m.start, m.end)]
    ELSE IF m.caps[g] = Unset THEN [kind |-> "None", v |-> <<>>]
    ELSE [kind |-> "str", v |-> Slice(txt, m.caps[g][1], m.caps[g][2])]

(***************************************************************************)
(* templates.py: values of a parsed template document                      *)
(*                                                                         *)
(* A value carries its Python type: StrV, IntV, BoolV, NoneV, ListV (a    *)
(* sequence of values) and MapV.  A mapping with a fixed schema is a record*)
(* that has a field for every key present; the `fields` mapping, whose     *)
(* keys are the field names, is the sequence of its items in order.        *)
(***************************************************************************)
StrV(x) == [ty |-> "str", v |-> x]

IntV(x) == [ty |-> "int", v |-> x]

BoolV(x) == [ty |-> "bool", v |-> x]

NoneV == [ty |-> "none", v |-> 0]

ListV(x) == [ty |-> "list", v |-> x]

MapV(x) == [ty |-> "map", v |-> x]

\* dict.get(key, default)
Get(d, key, default) == IF key \in DOMAIN d THEN d[key] ELSE default

Item(k, val) == [k |-> k, v |-> val]

Ok(val) == [ok |-> TRUE, err |-> "none", v |-> val]

Raise(err) == [ok |-> FALSE, err |-> err, v |-> <<>>]

T_text == <<"t","e","x","t">>

T_currency == <<"c","u","r","r","e","n","c","y">>

T_number == <<"n","u","m","b","e","r">>

T_date == <<"d","a","t","e">>

\* the flags FieldSpec.from_dict compiles every pattern with
FieldFlags == {"I", "M"}

\* int(), bool() and str() on the values a definition carries for
\* group, required, and transform
IntOf(val) == CASE val.ty = "int" -> val.v
                [] val.ty = "bool" -> IF val.v THEN 1 ELSE 0

BoolOf(val) == CASE val.ty = "bool" -> val.v
                 [] val.ty = "int" -> val.v # 0
                 [] val.ty = "str" -> val.v # <<>>
                 [] val.ty = "none" -> FALSE

StrOf(val) == CASE val.ty = "str" -> val.v

\* FieldSpec.from_dict
FieldSpecFromDict(value) ==
    LET ismap == value.ty = "map"
        pattern_value == IF ismap THEN Get(value.v, "pattern", NoneV) ELSE NoneV
        group_value == IF ismap THEN Get(value.v, "group", IntV(1)) ELSE IntV(1)
        transform_value == IF ismap THEN Get(value.v, "transform", StrV(T_text)) ELSE StrV(T_text)
        required_value == IF ismap THEN Get(value.v, "required", BoolV(FALSE)) ELSE BoolV(FALSE)
    IN  IF pattern_value.ty # "str" THEN Raise("MalformedTemplate")
        \* int(None) raises TypeError
        ELSE IF group_value.ty = "none" THEN Raise("TypeError")
        ELSE Ok([pattern |-> Compile(pattern_value.v, FieldFlags),
                 group |-> IntOf(group_value),
                 transform |-> StrOf(transform_value),
                 required |-> BoolOf(required_value)])

\* InvoiceTemplate.__init__: the keywords are stored lower-cased
InvoiceTemplateKeywords(keywords) == [k \in 1..Len(keywords) |-> Lower(keywords[k])]

\* RegexInvoiceTemplate.__init__
NewTemplate(name, keywords, fields) ==
    [name |-> name, keywords |-> InvoiceTemplateKeywords(keywords), fields |-> fields]

\* the loop of RegexInvoiceTemplate.from_dict over fields_raw.items()
RECURSIVE FieldsFromItems(_, _, _)
FieldsFromItems(items, k, fields) ==
    IF k > Len(items) THEN Ok(fields)
    ELSE IF items[k].v.ty # "map" THEN Raise("MalformedTemplate")
    ELSE LET spec == FieldSpecFromDict(items[k].v)
         IN  IF ~spec.ok THEN spec
             ELSE FieldsFromItems(items, k + 1, Append(fields, Item(items[k].k, spec.v)))

\* RegexInvoiceTemplate.from_dict
TemplateFromDict(payload) ==
    LET name == StrOf(Get(payload.v, "name", StrV("Unnamed Template")))
        keywords_raw == Get(payload.v, "keywords", ListV(<<>>))
        keywords == CASE keywords_raw.ty = "str" -> <<keywords_raw.v>>
                      [] keywords_raw.ty = "list" ->
                           [k \in 1..Len(keywords_raw.v) |-> StrOf(keywords_raw.v[k])]
                      [] OTHER -> <<>>
        fields_raw == Get(payload.v, "fields", NoneV)
    IN  IF fields_raw.ty # "map" THEN Raise("MalformedTemplate")
        ELSE LET fields == FieldsFromItems(fields_raw.v, 1, <<>>)
             IN  IF ~fields.ok THEN fields
                 ELSE Ok(NewTemplate(name, keywords, fields.v))

\* _apply_transform returning the value as it is after the replacements
ApplyTransformNoFinalStrip(value, transform) ==
    LET cleaned == Strip(value)
        tr == Lower(IF transform = <<>> THEN T_text ELSE transform)
    IN  CASE tr = T_currency -> Remove(Remove(cleaned, ","), "$")
          [] tr = T_number -> Remove(cleaned, ",")
          [] tr = T_date -> Replace(cleaned, "\n", " ")
          [] OTHER -> cleaned

\* _apply_transform
ApplyTransform(value, transform) ==
    LET cleaned == Strip(value)
        tr == Lower(IF transform = <<>> THEN T_text ELSE transform)
        out == CASE tr = T_currency -> Remove(Remove(cleaned, ","), "$")
                 [] tr = T_number -> Remove(cleaned, ",")
                 [] tr = T_date -> Replace(cleaned, "\n", " ")
                 [] OTHER -> cleaned
    IN  Strip(out)

\* values[field_name] = value on a dict kept as its items in insertion order
DictSet(items, key, val) ==
    IF \E k \in 1..Len(items) : items[k].k = key
    THEN [k \in 1..Len(items) |-> IF items[k].k = key THEN Item(key, val) ELSE items[k]]
    ELSE Append(items, Item(key, val))

Keys(items) == { items[k].k : k \in 1..Len(items) }

(***************************************************************************)
(* RegexInvoiceTemplate.extract.  The outcome is the returned mapping, or  *)
(* the exception that leaves the loop: the ValueError of a required field  *)
(* without a match (RequiredFieldMissing), the ValueError of a group the   *)
(* pattern does not have (MalformedPattern), or the AttributeError of      *)
(* _apply_transform on the None of a group that took no part in the match. *)
(***************************************************************************)
Omit == [kind |-> "omit", err |-> "none", v |-> <<>>]

Abort(err) == [kind |-> "raise", err |-> err, v |-> <<>>]

Value(val) == [kind |-> "value", err |-> "none", v |-> val]

\* FieldOutcome with a required field without a match omitted like an
\* optional one
FieldOutcomeSkipRequired(spec, text) ==
    LET value(raw_value) ==
          CASE raw_value.kind = "IndexError" -> Abort("MalformedPattern")
            [] raw_value.kind = "None" -> Abort("AttributeError")
            [] OTHER -> Value(ApplyTransform(raw_value.v, spec.transform))
        outcome(match) ==
          IF ~match.found
          THEN Omit
          ELSE value(MatchGroup(spec.pattern, text, match, spec.group))
    IN  outcome(Search(spec.pattern, text))

\* FieldOutcome with an optional field without a match given an empty value
FieldOutcomeEmptyOnMiss(spec, text) ==
    LET value(raw_value) ==
          CASE raw_value.kind = "IndexError" -> Abort("MalformedPattern")
            [] raw_value.kind = "None" -> Abort("AttributeError")
            [] OTHER -> Value(ApplyTransform(raw_value.v, spec.transform))
        outcome(match) ==
          IF ~match.found
          THEN IF spec.required THEN Abort("RequiredFieldMissing") ELSE Value(<<>>)
          ELSE value(MatchGroup(spec.pattern, text, match, spec.group))
    IN  outcome(Search(spec.pattern, text))

\* FieldOutcome with a rule whose group does not exist skipped
FieldOutcomeSkipMalformed(spec, text) ==
    LET value(raw_value) ==
          CASE raw_value.kind = "IndexError" -> Omit
            [] raw_value.kind = "None" -> Abort("AttributeError")
            [] OTHER -> Value(ApplyTransform(raw_value.v, spec.transform))
        outcome(match) ==
          IF ~match.found
          THEN IF spec.required THEN Abort("RequiredFieldMissing") ELSE Omit
          ELSE value(MatchGroup(spec.pattern, text, match, spec.group))
    IN  outcome(Search(spec.pattern, text))

\* the body of the loop of extract for one field
FieldOutcome(spec, text) ==
    LET value(raw_value) ==
          CASE raw_value.kind = "IndexError" -> Abort("MalformedPattern")
            [] raw_value.kind = "None" -> Abort("AttributeError")
            [] OTHER -> Value(ApplyTransform(raw_value.v, spec.transform))
        outcome(match) ==
          IF ~match.found
          THEN IF spec.required THEN Abort("RequiredFieldMissing") ELSE Omit
          ELSE value(MatchGroup(spec.pattern, text, match, spec.group))
    IN  outcome(Search(spec.pattern, text))

\* the loop of extract with a field whose group took no part in the match
\* left out
RECURSIVE ExtractLoopSkipNoneGroup(_, _, _, _)
ExtractLoopSkipNoneGroup(fields, k, text, values) ==
    IF k > Len(fields) THEN Ok(values)
    ELSE LET next(outcome) ==
               CASE outcome.kind = "raise" /\ outcome.err = "AttributeError" ->
                      ExtractLoopSkipNoneGroup(fields, k + 1, text, values)
                 [] outcome.kind = "raise" -> Raise(outcome.err)
                 [] outcome.kind = "omit" ->
                      ExtractLoopSkipNoneGroup(fields, k + 1, text, values)
                 [] OTHER -> ExtractLoopSkipNoneGroup(fields, k + 1, text,
                                 DictSet(values, fields[k].k, outcome.v))
         IN  next(FieldOutcome(fields[k].v, text))

\* the loop of RegexInvoiceTemplate.extract over the fields
RECURSIVE ExtractLoop(_, _, _, _)
ExtractLoop(fields, k, text, values) ==
    IF k > Len(fields) THEN Ok(values)
    ELSE LET next(outcome) ==
               CASE outcome.kind = "raise" -> Raise(outcome.err)
                 [] outcome.kind = "omit" -> ExtractLoop(fields, k + 1, text, values)
                 [] OTHER -> ExtractLoop(fields, k + 1, text,
                                         DictSet(values, fields[k].k, outcome.v))
         IN  next(FieldOutcome(fields[k].v, text))

Extract(template, text) == ExtractLoop(template.fields, 1, text, <<>>)

(***************************************************************************)
(* InvoiceTemplate.match_score.  The float matches / len(keywords) is the  *)
(* pair <<matches, len(keywords)>>; 0.0 is <<0, 1>>.  Two quotients of     *)
(* integers are equal as floats exactly when they are equal as fractions.  *)
(***************************************************************************)
\* match_score without lower-casing the text
MatchScoreCaseSensitive(template, text) ==
    IF Len(template.keywords) = 0 THEN <<0, 1>>
    ELSE LET matches == Cardinality({ k \in 1..Len(template.keywords) :
                            /\ template.keywords[k] # <<>>
                            /\ Contains(text, template.keywords[k]) })
         IN  <<matches, Len(template.keywords)>>

\* InvoiceTemplate.match_score
MatchScore(template, text) ==
    IF Len(template.keywords) = 0 THEN <<0, 1>>
    ELSE LET lower_text == Lower(text)
             matches == Cardinality({ k \in 1..Len(template.keywords) :
                            /\ template.keywords[k] # <<>>
                            /\ Contains(lower_text, template.keywords[k]) })
         IN  <<matches, Len(template.keywords)>>

\* score a > score b
Greater(a, b) == a[1] * b[2] > b[1] * a[2]

SameScore(a, b) == a[1] * b[2] = b[1] * a[2]

\* best_template with >= for >: the last of the best templates wins
RECURSIVE BestLoopLastWins(_, _, _, _, _)
BestLoopLastWins(templates, k, text, best_score, best_template) ==
    IF k > Len(templates) THEN best_template
    ELSE LET score == MatchScore(templates[k], text)
         IN  IF ~Greater(best_score, score)
             THEN BestLoopLastWins(templates, k + 1, text, score, k)
             ELSE BestLoopLastWins(templates, k + 1, text, best_score, best_template)

\* TemplateRepository.best_template: the index of the returned template
\* in the repository's list, 0 for None
RECURSIVE BestLoop(_, _, _, _, _)
BestLoop(templates, k, text, best_score, best_template) ==
    IF k > Len(templates) THEN best_template
    ELSE LET score == MatchScore(templates[k], text)
         IN  IF Greater(score, best_score)
             THEN BestLoop(templates, k + 1, text, score, k)
             ELSE BestLoop(templates, k + 1, text, best_score, best_template)

\* best_template with the running best score starting at 0.0
BestTemplateFromZero(templates, text) == BestLoop(templates, 1, text, <<0, 1>>, 0)

BestTemplate(templates, text) == BestLoop(templates, 1, text, <<0 - 1, 1>>, 0)

\* to_json without the "group" entry of a field
ToJsonNoGroup(templates) ==
    MapV([templates |-> ListV(
        [k \in 1..Len(templates) |->
            MapV([name |-> StrV(templates[k].name),
                 keywords |-> ListV([j \in 1..Len(templates[k].keywords) |->
                                       StrV(templates[k].keywords[j])]),
                 fields |-> MapV([j \in 1..Len(templates[k].fields) |->
                     LET spec == templates[k].fields[j].v
                     IN  Item(templates[k].fields[j].k,
                              MapV([pattern |-> StrV(spec.pattern.pattern),
                                   transform |-> StrV(spec.transform),
                                   required |-> BoolV(spec.required)]))])])])])

\* TemplateRepository.to_json
ToJson(templates) ==
    MapV([templates |-> ListV(
        [k \in 1..Len(templates) |->
            MapV([name |-> StrV(templates[k].name),
                 keywords |-> ListV([j \in 1..Len(templates[k].keywords) |->
                                       StrV(templates[k].keywords[j])]),
                 fields |-> MapV([j \in 1..Len(templates[k].fields) |->
                     LET spec == templates[k].fields[j].v
                     IN  Item(templates[k].fields[j].k,
                              MapV([pattern |-> StrV(spec.pattern.pattern),
                                   group |-> IntV(spec.group),
                                   transform |-> StrV(spec.transform),
                                   required |-> BoolV(spec.required)]))])])])])

\* the loop of from_json_file with a definition that cannot be built left out
RECURSIVE LoadLoopSkipMalformed(_, _, _)
LoadLoopSkipMalformed(payloads, k, templates) ==
    IF k > Len(payloads) THEN Ok(templates)
    ELSE IF payloads[k].ty # "map"
    THEN LoadLoopSkipMalformed(payloads, k + 1, templates)
    ELSE LET t == TemplateFromDict(payloads[k])
         IN  IF ~t.ok THEN LoadLoopSkipMalformed(payloads, k + 1, templates)
             ELSE LoadLoopSkipMalformed(payloads, k + 1, Append(templates, t.v))

\* the loop of TemplateRepository.from_json_file over the parsed document
RECURSIVE LoadLoop(_, _, _)
LoadLoop(payloads, k, templates) ==
    IF k > Len(payloads) THEN Ok(templates)
    ELSE IF payloads[k].ty # "map" THEN Raise("MalformedTemplate")
    ELSE LET t == TemplateFromDict(payloads[k])
         IN  IF ~t.ok THEN t
             ELSE LoadLoop(payloads, k + 1, Append(templates, t.v))

LoadTemplates(payload) ==
    LoadLoop(Get(payload.v, "templates", ListV(<<>>)).v, 1, <<>>)

(***************************************************************************)
(* template_learning.py                                                    *)
(***************************************************************************)
NoFlags == {}

Separators == {":", "#", "-"}

DigitSet == Set(Digits)

OptMinus == Opt(<<Set({"-"})>>)

\* -?[0-9][0-9,]*(?:\.[0-9]{1,2})?   (the value pattern of a currency)
CurrencyValuePattern ==
    <<OptMinus, DigitSet, Star(<<Set(Digits \cup {","})>>),
      Opt(<<Set({"."}), Rep(<<DigitSet>>, 1, 2)>>)>>

\* -?[0-9][0-9,]*(?:\.[0-9]+)?   (the value pattern of a number)
NumberValuePattern ==
    <<OptMinus, DigitSet, Star(<<Set(Digits \cup {","})>>),
      Opt(<<Set({"."}), Plus(<<DigitSet>>)>>)>>

\* [A-Za-z0-9,\/\- ]+
DateValuePattern == <<Plus(<<Set(Letters \cup Digits \cup {",", "/", "-", " "})>>)>>

\* [A-Za-z0-9-]+
TokenValuePattern == <<Plus(<<Set(Letters \cup Digits \cup {"-"})>>)>>

\* [A-Za-z0-9 .,/#-]+
WideValuePattern == <<Plus(<<Set(Letters \cup Digits \cup {" ", ".", ",", "/", "#", "-"})>>)>>

\* [^\n]+
LineValuePattern == <<Plus(<<NotSet({"\n"})>>)>>

\* [\S\s]*
AnyValuePattern == <<Star(<<NotSet({})>>)>>

\* _CURRENCY_RE, matched against a whole value: ^\s* ... \s*$
CURRENCY_RE ==
    Compile(<<Star(<<Set(Whitespace)>>), Opt(<<Set({"$"})>>)>>
            \o CurrencyValuePattern \o <<Star(<<Set(Whitespace)>>)>>, NoFlags)

\* _NUMBER_RE
NUMBER_RE ==
    Compile(<<Star(<<Set(Whitespace)>>)>> \o NumberValuePattern
            \o <<Star(<<Set(Whitespace)>>)>>, NoFlags)

\* _DATE_RE: \d{1,2}[/-]\d{1,2}[/-]\d{2,4} | [A-Za-z]{3,9}\s+\d{1,2},?\s+\d{2,4}
DATE_RE ==
    Compile(<<Star(<<Set(Whitespace)>>),
              Alt(<< <<Rep(<<DigitSet>>, 1, 2), Set({"/", "-"}),
                       Rep(<<DigitSet>>, 1, 2), Set({"/", "-"}),
                       Rep(<<DigitSet>>, 2, 4)>>,
                     <<Rep(<<Set(Letters)>>, 3, 9), Plus(<<Set(Whitespace)>>),
                       Rep(<<DigitSet>>, 1, 2), Opt(<<Set({","})>>),
                       Plus(<<Set(Whitespace)>>), Rep(<<DigitSet>>, 2, 4)>> >>),
              Star(<<Set(Whitespace)>>)>>, NoFlags)

\* the class of a character in the tokens of _normalise_prefix:
\* \s+ | [:#-]+ | [^:#\-\s]+
TokenClass(c) == IF c \in Whitespace THEN "space"
                 ELSE IF c \in Separators THEN "sep" ELSE "other"

\* the length of the run of characters of one class at the head of s
RECURSIVE RunLength(_, _)
RunLength(s, cls) ==
    IF s = <<>> \/ TokenClass(Head(s)) # cls THEN 0
    ELSE 1 + RunLength(Tail(s), cls)

\* the loop of _normalise_prefix over the tokens of the prefix
RECURSIVE PrefixParts(_)
PrefixParts(prefix) ==
    IF prefix = <<>> THEN <<>>
    ELSE LET cls == TokenClass(Head(prefix))
             n == RunLength(prefix, cls)
             token == Slice(prefix, 1, n + 1)
             part == CASE cls = "space" -> <<Plus(<<Set(Whitespace)>>)>>
                       [] cls = "sep" -> <<Star(<<Set(Separators)>>)>>
                       [] OTHER -> Lit(token)
         IN  part \o PrefixParts(Slice(prefix, n + 1, Len(prefix) + 1))

\* _normalise_prefix
NormalisePrefix(prefix) ==
    IF Strip(prefix) = <<>> THEN <<>>
    ELSE PrefixParts(prefix) \o <<Star(<<Set(Whitespace \cup Separators)>>)>>

\* _guess_value_pattern checking the number shape before the currency shape
GuessValuePatternNumberFirst(value) ==
    LET cleaned == Strip(value)
    IN  IF cleaned = <<>> THEN AnyValuePattern
        ELSE IF FullMatch(NUMBER_RE, cleaned) THEN NumberValuePattern
        ELSE IF FullMatch(CURRENCY_RE, cleaned) THEN CurrencyValuePattern
        ELSE IF FullMatch(DATE_RE, cleaned) THEN DateValuePattern
        ELSE IF FullMatch(Compile(TokenValuePattern, NoFlags), cleaned) THEN TokenValuePattern
        ELSE IF FullMatch(Compile(WideValuePattern, NoFlags), cleaned) THEN WideValuePattern
        ELSE LineValuePattern

\* _guess_value_pattern
GuessValuePattern(value) ==
    LET cleaned == Strip(value)
    IN  IF cleaned = <<>> THEN AnyValuePattern
        ELSE IF FullMatch(CURRENCY_RE, cleaned) THEN CurrencyValuePattern
        ELSE IF FullMatch(NUMBER_RE, cleaned) THEN NumberValuePattern
        ELSE IF FullMatch(DATE_RE, cleaned) THEN DateValuePattern
        ELSE IF FullMatch(Compile(TokenValuePattern, NoFlags), cleaned) THEN TokenValuePattern
        ELSE IF FullMatch(Compile(WideValuePattern, NoFlags), cleaned) THEN WideValuePattern
        ELSE LineValuePattern

\* _guess_transform
GuessTransform(value) ==
    LET cleaned == Strip(value)
    IN  IF FullMatch(CURRENCY_RE, cleaned) THEN T_currency
        ELSE IF FullMatch(DATE_RE, cleaned) THEN T_date
        ELSE IF FullMatch(NUMBER_RE, cleaned) THEN T_number
        ELSE T_text

\* the last line before lines[index] that is not blank, <<>> if none
\* ([ln for ln in lines[:index][::-1] if ln.strip()])
PreviousLine(lines, index) ==
    LET cand == { k \in 1..(index - 1) : Strip(lines[k]) # <<>> }
    IN  IF cand = {} THEN <<>>
        ELSE lines[CHOOSE k \in cand : \A j \in cand : k >= j]

\* the loop of _find_best_line always keeping the prefix of the line itself
RECURSIVE FindLineLoopOwnPrefix(_, _, _)
FindLineLoopOwnPrefix(lines, index, lower_value) ==
    IF index > Len(lines) THEN Raise("NotFound")
    ELSE LET line == lines[index]
             position == Find(Lower(line), lower_value)
         IN  IF position # 0
             THEN Ok([line |-> line, prefix |-> Slice(line, 1, position)])
             ELSE FindLineLoopOwnPrefix(lines, index + 1, lower_value)

\* the loop of _find_best_line over the lines
RECURSIVE FindLineLoop(_, _, _)
FindLineLoop(lines, index, lower_value) ==
    IF index > Len(lines) THEN Raise("NotFound")
    ELSE LET line == lines[index]
             position == Find(Lower(line), lower_value)
         IN  IF position # 0
             THEN LET prefix == Slice(line, 1, position)
                      previous == PreviousLine(lines, index)
                  IN  IF Strip(prefix) = <<>> /\ index > 1 /\ previous # <<>>
                      THEN Ok([line |-> line, prefix |-> Strip(previous) \o <<" ">>])
                      ELSE Ok([line |-> line, prefix |-> prefix])
             ELSE FindLineLoop(lines, index + 1, lower_value)

\* _find_best_line
FindBestLine(text, value) ==
    LET lower_value == Lower(Strip(value))
    IN  IF lower_value = <<>> THEN Raise("InvalidInput")
        ELSE FindLineLoop(SplitLines(text), 1, lower_value)

\* (?:[$...]|USD|CAD|AUD|GBP|EUR)?\s*  ; of the currency symbols only "$"
\* is a character of the model
CurrencyPrefix ==
    <<Opt(<<Alt(<< <<Set({"$"})>>, Lit(<<"U","S","D">>), Lit(<<"C","A","D">>),
                   Lit(<<"A","U","D">>), Lit(<<"G","B","P">>), Lit(<<"E","U","R">>) >>)>>),
      Star(<<Set(Whitespace)>>)>>

\* derive_field without the currency symbol in front of a currency value
DeriveFieldNoCurrencyPrefix(text, name, value) ==
    LET field(prefix_pattern, transform, value_pattern) ==
          Ok([name |-> name,
              pattern |-> prefix_pattern \o <<Grp(1, value_pattern)>>,
              transform |-> transform, required |-> TRUE, group |-> 1])
        derive(found) ==
          IF ~found.ok THEN found
          ELSE field(NormalisePrefix(found.v.prefix), GuessTransform(value),
                     GuessValuePattern(value))
    IN  derive(FindBestLine(text, value))

\* derive_field: a LearnedField, required = True and group = 1 by default
DeriveField(text, name, value) ==
    LET field(prefix_pattern, transform, value_pattern) ==
          Ok([name |-> name,
              pattern |-> IF transform = T_currency
                          THEN prefix_pattern \o CurrencyPrefix \o <<Grp(1, value_pattern)>>
                          ELSE prefix_pattern \o <<Grp(1, value_pattern)>>,
              transform |-> transform, required |-> TRUE, group |-> 1])
        derive(found) ==
          IF ~found.ok THEN found
          ELSE field(NormalisePrefix(found.v.prefix), GuessTransform(value),
                     GuessValuePattern(value))
    IN  derive(FindBestLine(text, value))

\* learn_fields with a field whose value is not found left out
RECURSIVE LearnFieldsLoopSkipMissing(_, _, _, _)
LearnFieldsLoopSkipMissing(text, samples, k, learned) ==
    IF k > Len(samples) THEN Ok(learned)
    ELSE IF samples[k].k = "" THEN Raise("InvalidInput")
    ELSE LET next(field) ==
               IF ~field.ok
               THEN IF field.err = "NotFound"
                    THEN LearnFieldsLoopSkipMissing(text, samples, k + 1, learned)
                    ELSE field
               ELSE LearnFieldsLoopSkipMissing(text, samples, k + 1, Append(learned, field.v))
         IN  next(DeriveField(text, samples[k].k, samples[k].v))

\* learn_fields: the loop over field_samples.items()
RECURSIVE LearnFieldsLoop(_, _, _, _)
LearnFieldsLoop(text, samples, k, learned) ==
    IF k > Len(samples) THEN Ok(learned)
    ELSE IF samples[k].k = "" THEN Raise("InvalidInput")
    ELSE LET next(field) ==
               IF ~field.ok THEN field
               ELSE LearnFieldsLoop(text, samples, k + 1, Append(learned, field.v))
         IN  next(DeriveField(text, samples[k].k, samples[k].v))

LearnFields(text, field_samples) == LearnFieldsLoop(text, field_samples, 1, <<>>)

\* the length of the list `learned` of learn_fields when the loop ends or
\* raises: the number of fields derive_field has returned a pattern for
RECURSIVE LearnedBefore(_, _, _)
LearnedBefore(text, samples, k) ==
    IF k > Len(samples) THEN 0
    ELSE IF samples[k].k = "" THEN 0
    ELSE IF ~DeriveField(text, samples[k].k, samples[k].v).ok THEN 0
    ELSE 1 + LearnedBefore(text, samples, k + 1)

\* the first line of the text that is not blank, stripped; <<>> if none
FirstCandidate(text) ==
    LET lines == SplitLines(text)
        cand == { k \in 1..Len(lines) : Strip(lines[k]) # <<>> }
    IN  IF cand = {} THEN <<>>
        ELSE Strip(lines[CHOOSE k \in cand : \A j \in cand : k <= j])

Invoice == <<"i","n","v","o","i","c","e">>

\* _infer_keywords without the appended "invoice"
InferKeywordsNoInvoice(text, existing) ==
    LET keywords == SelectSeq(existing, LAMBDA keyword : keyword # <<>>)
    IN  IF keywords # <<>> THEN keywords
        ELSE LET candidate == FirstCandidate(text)
             IN  IF candidate # <<>> THEN <<candidate>> ELSE <<>>

\* _infer_keywords
InferKeywords(text, existing) ==
    LET keywords == SelectSeq(existing, LAMBDA keyword : keyword # <<>>)
    IN  IF keywords # <<>> THEN keywords
        ELSE LET candidate == FirstCandidate(text)
                 inferred == IF candidate # <<>> THEN <<candidate>> ELSE <<>>
             IN  IF \E k \in 1..Len(inferred) : Lower(inferred[k]) = Invoice
                 THEN inferred
                 ELSE Append(inferred, Invoice)

\* the loop of learn_template_from_text that fills template_fields
RECURSIVE TemplateFields(_, _, _)
TemplateFields(learned, k, template_fields) ==
    IF k > Len(learned) THEN template_fields
    ELSE TemplateFields(learned, k + 1,
             DictSet(template_fields, learned[k].name,
                     MapV([pattern |-> StrV(learned[k].pattern),
                           group |-> IntV(learned[k].group),
                           transform |-> StrV(learned[k].transform),
                           required |-> BoolV(learned[k].required)])))

\* learn_template_from_text rejecting an empty field name before any field
\* is learnt
LearnTemplateFromTextNamesFirst(text, name, keywords, field_samples) ==
    IF field_samples = <<>> THEN Raise("InvalidInput")
    ELSE IF \E k \in 1..Len(field_samples) : field_samples[k].k = ""
    THEN Raise("InvalidInput")
    ELSE LET template_name == IF name = "" THEN "Learned Template" ELSE name
             template(learned_fields, template_keywords) ==
               IF ~learned_fields.ok THEN learned_fields
               ELSE Ok(MapV([name |-> StrV(template_name),
                             keywords |-> ListV([k \in 1..Len(template_keywords) |->
                                                    StrV(template_keywords[k])]),
                             fields |-> MapV(TemplateFields(learned_fields.v, 1, <<>>))]))
         IN  template(LearnFields(text, field_samples), InferKeywords(text, keywords))

\* the number of fields whose pattern was inferred during a call of
\* learn_template_from_text, whatever its outcome
InferredFields(text, field_samples) ==
    IF field_samples = <<>> THEN 0 ELSE LearnedBefore(text, field_samples, 1)

\* learn_template_from_text; name = "" stands for no name
LearnTemplateFromText(text, name, keywords, field_samples) ==
    IF field_samples = <<>> THEN Raise("InvalidInput")
    ELSE LET template_name == IF name = "" THEN "Learned Template" ELSE name
             template(learned_fields, template_keywords) ==
               IF ~learned_fields.ok THEN learned_fields
               ELSE Ok(MapV([name |-> StrV(template_name),
                             keywords |-> ListV([k \in 1..Len(template_keywords) |->
                                                    StrV(template_keywords[k])]),
                             fields |-> MapV(TemplateFields(learned_fields.v, 1, <<>>))]))
         IN  template(LearnFields(text, field_samples), InferKeywords(text, keywords))

(***************************************************************************)
(* pipeline.py: InvoiceExtractor.extract_from_text.  The outcome is the    *)
(* ExtractionResult (template_name is a string or None) or the exception   *)
(* that leaves the call.                                                   *)
(***************************************************************************)
\* the failures of extract that are a ValueError
ValueErrors == {"RequiredFieldMissing", "MalformedPattern"}

\* template_name = None in a result
NoName == [ty |-> "none", v |-> ""]

ExtractionResult(template_name, confidence, fields) ==
    Ok([template_name |-> template_name, confidence |-> confidence, fields |-> fields])

\* InvoiceExtractor.extract_from_text
ExtractFromText(templates, text, confidence_threshold) ==
    LET caught(template, confidence, fields) ==
          IF fields.ok THEN ExtractionResult(StrV(template.name), confidence, fields.v)
          ELSE IF fields.err \in ValueErrors
          THEN ExtractionResult(StrV(template.name), confidence, <<>>)
          ELSE Raise(fields.err)
        matched(template, confidence) ==
          IF ~Greater(confidence_threshold, confidence)
          THEN caught(template, confidence, Extract(template, text))
          ELSE ExtractionResult(NoName, <<0, 1>>, <<>>)
        found(best) ==
          IF best = 0 THEN ExtractionResult(NoName, <<0, 1>>, <<>>)
          ELSE matched(templates[best], MatchScore(templates[best], text))
    IN  found(BestTemplate(templates, text))

(***************************************************************************)
(* Inputs of the repository specification: template definitions as a       *)
(* template document holds them, and the texts of documents.               *)
(***************************************************************************)
\* no:([0-9]+)
P_number == Lit(<<"n","o",":">>) \o <<Grp(1, <<Plus(<<DigitSet>>)>>)>>

\* total ([0-9$,]+)
P_total == Lit(<<"t","o","t","a","l"," ">>) \o <<Grp(1, <<Plus(<<Set(Digits \cup {"$", ","})>>)>>)>>

\* due   (no capturing group)
P_due == Lit(<<"d","u","e">>)

\* no(x)?   (a group that takes no part in a match of "no:")
P_flag == Lit(<<"n","o">>) \o <<Opt(<<Grp(1, Lit(<<"x">>))>>)>>

K_acme == <<"A","C","M","E">>

K_invoice == <<"I","n","v","o","i","c","e">>

K_globex == <<"g","l","o","b","e","x">>

T_Currency == <<"C","u","r","r","e","n","c","y">>

Defs ==
    << \* 1: two keywords in upper case; a required and an optional field
       MapV([name |-> StrV("Acme"),
             keywords |-> ListV(<<StrV(K_acme), StrV(K_invoice)>>),
             fields |-> MapV(<<
                 Item("number", MapV([pattern |-> StrV(P_number), transform |-> StrV(T_number),
                                      required |-> BoolV(TRUE)])),
                 Item("total", MapV([pattern |-> StrV(P_total), group |-> IntV(1),
                                     transform |-> StrV(T_currency)])) >>)]),
       \* 2: the keywords given as one string; group 0 on a pattern without groups
       MapV([name |-> StrV("Globex"),
             keywords |-> StrV(K_globex),
             fields |-> MapV(<<
                 Item("total", MapV([pattern |-> StrV(P_total), transform |-> StrV(T_Currency),
                                     required |-> BoolV(FALSE)])),
                 Item("due", MapV([pattern |-> StrV(P_due), group |-> IntV(0),
                                   required |-> BoolV(TRUE)])) >>)]),
       \* 3: no name, no keywords, no fields
       MapV([fields |-> MapV(<<>>)]),
       \* 4: an empty keyword; the rule of `due` names group 1 of a pattern
       \*    without groups, before a required field
       MapV([name |-> StrV("Broken"),
             keywords |-> ListV(<<StrV(K_acme), StrV(<<>>)>>),
             fields |-> MapV(<<
                 Item("number", MapV([pattern |-> StrV(P_number)])),
                 Item("due", MapV([pattern |-> StrV(P_due)])),
                 Item("total", MapV([pattern |-> StrV(P_total), transform |-> StrV(T_currency),
                                     required |-> BoolV(TRUE)])) >>)]),
       \* 5: the name of definition 1 again; a group inside an optional part
       MapV([name |-> StrV("Acme"),
             keywords |-> ListV(<<StrV(K_invoice), StrV(K_globex)>>),
             fields |-> MapV(<<
                 Item("total", MapV([pattern |-> StrV(P_total)])),
                 Item("flag", MapV([pattern |-> StrV(P_flag)])) >>)]) >>

\* definitions that from_dict does not accept
BadDefs ==
    << \* 1: no `fields` entry
       MapV([name |-> StrV("NoFields"), keywords |-> ListV(<<StrV(K_acme)>>)]),
       \* 2: `fields` is a list
       MapV([name |-> StrV("ListFields"), fields |-> ListV(<<>>)]),
       \* 3: the second field entry is a string
       MapV([name |-> StrV("StringField"),
             fields |-> MapV(<<Item("number", MapV([pattern |-> StrV(P_number)])),
                               Item("total", StrV(P_total))>>)]),
       \* 4: a field entry without `pattern`
       MapV([name |-> StrV("NoPattern"),
             fields |-> MapV(<<Item("number", MapV([group |-> IntV(1)]))>>)]),
       \* 5: a `pattern` that is a number, with a null `group`
       MapV([name |-> StrV("NumberPattern"),
             fields |-> MapV(<<Item("number", MapV([pattern |-> IntV(7), group |-> NoneV]))>>)]),
       \* 6: a definition that is a list
       ListV(<<>>),
       \* 7: a field entry with a null `group`
       MapV([name |-> StrV("NullGroup"),
             fields |-> MapV(<<Item("number", MapV([pattern |-> StrV(P_number), group |-> NoneV]))>>)]),
       \* 8: a field entry with a null `group` before one without `pattern`
       MapV([name |-> StrV("NullGroupFirst"),
             fields |-> MapV(<<Item("number", MapV([pattern |-> StrV(P_number), group |-> NoneV])),
                               Item("total", MapV([group |-> IntV(1)]))>>)]) >>

\* the template documents loaded: one or two definitions, at most one of
\* them accepted by from_dict or both with a null `group` in the first
Documents ==
    { <<BadDefs[b]>> : b \in DOMAIN BadDefs }
    \cup { <<Defs[1], BadDefs[b]>> : b \in DOMAIN BadDefs }
    \cup { <<BadDefs[b], Defs[1]>> : b \in DOMAIN BadDefs }
    \cup { <<BadDefs[7], BadDefs[b]>> : b \in DOMAIN BadDefs }
    \cup { <<Defs[1], Defs[2]>>, <<>> }

Texts ==
    << <<"A","C","M","E"," ","I","n","v","o","i","c","e","\n","N","o",":","1","2","\n","T","o","t","a","l"," ","$","1",",","5","\n">>,
       <<"G","l","o","b","e","x"," ","i","n","v","o","i","c","e"," ","d","u","e","\n","t","o","t","a","l"," ","7"," ","\n">>,
       <<"a","c","m","e"," ","d","u","e"," ","n","o",":","3">>,
       <<"g","l","o","b","e","x"," ","t","o","t","a","l"," ","9">>,
       <<>> >>

(***************************************************************************)
(* Inputs of the learning specification: invoices laid out as the one of   *)
(* tests/test_template_learning.py, a header line and three lines          *)
(* "label: value", and the samples given for them.                         *)
(***************************************************************************)
Indent == <<" "," "," "," ">>

Headers == << <<"A","C","M","E"," ","I","n","d","u","s","t","r","i","a","l"," ","S","u","p","p","l","i","e","s">>, <<"I","N","V","O","I","C","E">> >>

L_number == <<"I","n","v","o","i","c","e"," ","#",":"," ">>

L_date == <<"I","n","v","o","i","c","e"," ","D","a","t","e",":"," ">>

L_total == <<"T","o","t","a","l"," ","D","u","e",":"," ">>

\* the text up to the invoice number, the date, the total
BeforeNumber(h) == <<"\n">> \o Indent \o Headers[h] \o <<"\n">> \o Indent \o L_number

BeforeDate(h, n) == BeforeNumber(h) \o n \o <<"\n">> \o Indent \o L_date

BeforeTotal(h, n, d) == BeforeDate(h, n) \o d \o <<"\n">> \o Indent \o L_total

InvoiceText(h, n, d, t) == BeforeTotal(h, n, d) \o t \o <<"\n">> \o Indent

\* invoice numbers of the learning text: of the test, with letters, digits
\* only, one that is also a word of the header, and one shaped like a date
SampleNumbers == << <<"1","0","1","3","-","1","0","1","6","-","1">>, <<"I","N","V","-","7">>, <<"4","2">>, <<"A","C","M","E">>, <<"1","-","2","-","3","4">> >>

SampleDates == << <<"1","0","/","1","6","/","2","0","2","3">>, <<"1","/","5","/","2","0","2","4">> >>

SampleTotals == << <<"$","1",",","2","3","4",".","0","0">>, <<"$","5">> >>

\* the values of the second text
OtherNumbers == << <<"1","0","1","3","-","1","0","1","7","-","9">>, <<"I","N","V","-","8">>, <<"4","3">>, <<"-","5">> >>

OtherDates == << <<"1","1","/","0","1","/","2","0","2","3">>, <<"1","/","5","/","2","0","2","4">> >>

OtherTotals == << <<"$","9","8","7",".","6","5">>, <<"$","1",",","2","3","4",".","0","0">> >>

\* a value that no line of any text holds
Absent == <<"X","Y","Z","-","0">>

Blank == <<" "," ">>

FullSamples(n, d, t) ==
    <<Item("invoice_number", n), Item("invoice_date", d), Item("total", t)>>

\* the field_samples given for the text of n, d, t
SampleVariants(n, d, t) ==
    << FullSamples(n, d, t),
       <<Item("invoice_number", n)>>,
       <<>>,
       FullSamples(Absent, d, t),
       FullSamples(n, d, Absent),
       <<Item("", n), Item("invoice_date", Absent), Item("total", t)>>,
       <<Item("invoice_number", Blank), Item("invoice_date", Absent), Item("total", t)>>,
       <<Item("invoice_number", n), Item("invoice_date", d), Item("", t)>>,
       <<Item("invoice_number", Absent), Item("", d), Item("total", Blank)>>,
       <<Item("invoice_number", n), Item("invoice_date", Blank), Item("total", t)>> >>

K_supplies == <<"A","C","M","E"," ","I","n","d","u","s","t","r","i","a","l"," ","S","u","p","p","l","i","e","s">>

\* the keywords argument: none, one keyword, only an empty keyword
KeywordArgs == << <<>>, <<K_supplies>>, << <<>> >> >>

NameArgs == <<"", "ACME Industrial Invoice">>

\* the documents learnt from, <<header, number, date, total>>: those of the
\* test's document with one line changed, and the other header
LearnDocs ==
    { <<1, n, 1, 1>> : n \in DOMAIN SampleNumbers }
    \cup { <<1, 1, d, t>> : d \in DOMAIN SampleDates, t \in DOMAIN SampleTotals }
    \cup { <<h, 1, 1, 1>> : h \in DOMAIN Headers }

\* the name and keywords arguments, <<name, keywords>>, tried with a
\* document: every choice with the test's document, no name and no keywords
\* with the others
LearnArgs(doc) ==
    IF doc = <<1, 1, 1, 1>>
    THEN (DOMAIN NameArgs) \X (DOMAIN KeywordArgs)
    ELSE { <<1, 1>> }

\* the second documents, <<number, date, total>>
ApplyDocs ==
    { <<n, 1, 1>> : n \in DOMAIN OtherNumbers }
    \cup { <<1, d, t>> : d \in DOMAIN OtherDates, t \in DOMAIN OtherTotals }

\* the longest repository the repository specification builds
MaxTemplates == 2

(***************************************************************************)
(* State                                                                   *)
(*   templates : TemplateRepository.templates                              *)
(*   last      : the last call on the repository or on one of its          *)
(*               templates: the operation, its text argument, the index of *)
(*               the template it was applied to or returned, the score and *)
(*               the outcome it returned                                   *)
(*   learned   : a learning session (learn.py): the arguments of           *)
(*               learn_template_from_text and, once called, its outcome    *)
(*               and the number of fields it inferred a pattern for        *)
(***************************************************************************)
VARIABLES templates, last, learned

vars == <<templates, last, learned>>

Call(op, text, idx, score, out) ==
    [op |-> op, text |-> text, idx |-> idx, score |-> score, out |-> out]

NoOut == Ok(<<>>)

NoCall == Call("none", <<>>, 0, <<0, 1>>, NoOut)

NoSession ==
    [stage |-> "none", text |-> <<>>, name |-> "", keywords |-> <<>>,
     samples |-> <<>>, res |-> NoOut, inferred |-> 0]

Init ==
    /\ templates = <<>>
    /\ last = NoCall
    /\ learned = NoSession

\* the position of the first template of the list with that name, 0 for none
NamedAs(list, name) ==
    IF \E k \in 1..Len(list) : list[k].name = name
    THEN CHOOSE k \in 1..Len(list) :
             list[k].name = name /\ \A j \in 1..(k - 1) : list[j].name # name
    ELSE 0

\* add that replaces the template of the same name
AddReplacingSameName(d) ==
    /\ Len(templates) < MaxTemplates
    /\ TemplateFromDict(Defs[d]).ok
    /\ templates' =
          LET put(template, at) ==
                IF at = 0 THEN Append(templates, template)
                ELSE [templates EXCEPT ![at] = template]
              replace(template) == put(template, NamedAs(templates, template.name))
          IN  replace(TemplateFromDict(Defs[d]).v)
    /\ last' = Call("add", <<>>, Len(templates) + 1, <<0, 1>>, NoOut)
    /\ UNCHANGED learned

\* TemplateRepository.add, of a template built by RegexInvoiceTemplate.from_dict
Add(d) ==
    /\ Len(templates) < MaxTemplates
    /\ TemplateFromDict(Defs[d]).ok
    /\ templates' = Append(templates, TemplateFromDict(Defs[d]).v)
    /\ last' = Call("add", <<>>, Len(templates) + 1, <<0, 1>>, NoOut)
    /\ UNCHANGED learned

\* TemplateRepository.extend: add, for each template in turn
Extend(d1, d2) ==
    /\ Len(templates) + 2 <= MaxTemplates
    /\ TemplateFromDict(Defs[d1]).ok /\ TemplateFromDict(Defs[d2]).ok
    /\ templates' = Append(Append(templates, TemplateFromDict(Defs[d1]).v),
                           TemplateFromDict(Defs[d2]).v)
    /\ last' = Call("extend", <<>>, Len(templates) + 2, <<0, 1>>, NoOut)
    /\ UNCHANGED learned

\* template.match_score(text) on a template of the repository
Score(i, t) ==
    /\ i \in 1..Len(templates)
    /\ last' = Call("match_score", Texts[t], i, MatchScore(templates[i], Texts[t]), NoOut)
    /\ UNCHANGED <<templates, learned>>

\* best_template keeping the template it returns at the head of the list
BestMoveToFront(t) ==
    /\ last' = Call("best_template", Texts[t], BestTemplate(templates, Texts[t]), <<0, 1>>, NoOut)
    /\ templates' =
          LET front(best) ==
                IF best = 0 THEN templates
                ELSE <<templates[best]>> \o SubSeq(templates, 1, best - 1)
                     \o SubSeq(templates, best + 1, Len(templates))
          IN  front(BestTemplate(templates, Texts[t]))
    /\ UNCHANGED learned

\* repository.best_template(text)
Best(t) ==
    /\ last' = Call("best_template", Texts[t], BestTemplate(templates, Texts[t]), <<0, 1>>, NoOut)
    /\ UNCHANGED <<templates, learned>>

\* template.extract(text) on a template of the repository
ExtractCall(i, text) ==
    /\ i \in 1..Len(templates)
    /\ last' = Call("extract", text, i, <<0, 1>>, Extract(templates[i], text))
    /\ UNCHANGED <<templates, learned>>

\* the repository serialised by to_json and the result loaded again
SaveLoad ==
    /\ last' = Call("load", <<>>, 0, <<0, 1>>, LoadTemplates(ToJson(templates)))
    /\ UNCHANGED <<templates, learned>>

\* the calls of extract_from_text, as <<text, confidence_threshold>>: every
\* text at the default threshold 0.1, the first text at 0.75, and the empty
\* text at 0
ExtractorCalls ==
    { <<t, <<1, 10>>>> : t \in DOMAIN Texts } \cup { <<1, <<3, 4>>>>, <<5, <<0, 1>>>> }

\* InvoiceExtractor(repository, confidence_threshold).extract_from_text(text)
ExtractFromTextCall(t, confidence_threshold) ==
    /\ last' = [op |-> "extract_from_text", text |-> Texts[t],
                idx |-> 0, score |-> <<0, 1>>,
                out |-> ExtractFromText(templates, Texts[t], confidence_threshold),
                confidence_threshold |-> confidence_threshold]
    /\ UNCHANGED <<templates, learned>>

Next ==
    \/ \E d \in DOMAIN Defs : Add(d)
    \/ \E d1, d2 \in DOMAIN Defs : Extend(d1, d2)
    \/ \E i \in 1..MaxTemplates + 1, t \in DOMAIN Texts : Score(i, t)
    \/ \E t \in DOMAIN Texts : Best(t)
    \/ \E i \in 1..MaxTemplates + 1, t \in DOMAIN Texts : ExtractCall(i, Texts[t])
    \/ SaveLoad
    \/ \E call \in ExtractorCalls : ExtractFromTextCall(call[1], call[2])

Spec == Init /\ [][Next]_vars

(***************************************************************************)
(* Properties of matching, selection, extraction and serialisation         *)
(***************************************************************************)
\* keyword kw occurs in text as a substring, letters compared without case
OccursIn(kw, text) ==
    \E p \in 1..(Len(text) - Len(kw) + 1) :
        \A j \in 1..Len(kw) : LowerChar(text[p + j - 1]) = LowerChar(kw[j])

ScoredKeywords == templates[last.idx].keywords

\* C1 as stated: match_score is 0 without keywords and otherwise the number
\* of keywords that occur in the text, case-insensitively, over the number
\* of keywords; the score lies in [0, 1].
C1_ScoreCountsEveryKeyword ==
    last.op = "match_score" =>
        /\ Len(ScoredKeywords) = 0 => last.score = <<0, 1>>
        /\ Len(ScoredKeywords) > 0 =>
              last.score = << Cardinality({ k \in 1..Len(ScoredKeywords) :
                                               OccursIn(ScoredKeywords[k], last.text) }),
                              Len(ScoredKeywords) >>
        /\ 0 <= last.score[1] /\ last.score[1] <= last.score[2]

\* C1 amended: match_score is 0 without keywords and otherwise the number of
\* non-empty keywords that occur in the text, case-insensitively, over the
\* number of all keywords (an empty keyword is never counted as present);
\* the score lies in [0, 1].
C1_ScoreCountsNonEmptyKeywords ==
    last.op = "match_score" =>
        /\ Len(ScoredKeywords) = 0 => last.score = <<0, 1>>
        /\ Len(ScoredKeywords) > 0 =>
              last.score = << Cardinality({ k \in 1..Len(ScoredKeywords) :
                                               /\ ScoredKeywords[k] # <<>>
                                               /\ OccursIn(ScoredKeywords[k], last.text) }),
                              Len(ScoredKeywords) >>
        /\ 0 <= last.score[1] /\ last.score[1] <= last.score[2]

\* a template with an empty keyword scored 1/2 on a text that holds its
\* other keyword in another case
C1_Witness ==
    /\ last.op = "match_score"
    /\ \E k \in 1..Len(ScoredKeywords) : ScoredKeywords[k] = <<>>
    /\ last.score = <<1, 2>>
    /\ \E k \in 1..Len(ScoredKeywords) :
          /\ ScoredKeywords[k] # <<>>
          /\ OccursIn(ScoredKeywords[k], last.text)
          /\ ~Contains(last.text, ScoredKeywords[k])

ScoreOf(j) == MatchScore(templates[j], last.text)

\* C2: on a non-empty repository best_template returns the template of the
\* lowest index among those of maximal score: none scores strictly higher
\* than the returned one, and every earlier one scores strictly lower.
C2_BestIsFirstOfMaximalScore ==
    (last.op = "best_template" /\ templates # <<>>) =>
        /\ last.idx \in 1..Len(templates)
        /\ \A j \in 1..Len(templates) : ~Greater(ScoreOf(j), ScoreOf(last.idx))
        /\ \A j \in 1..(last.idx - 1) : Greater(ScoreOf(last.idx), ScoreOf(j))

\* two different templates tie on a positive score and the first is returned
C2_Witness ==
    /\ last.op = "best_template"
    /\ Len(templates) = 2
    /\ templates[1] # templates[2]
    /\ SameScore(ScoreOf(1), ScoreOf(2))
    /\ ScoreOf(1)[1] > 0
    /\ last.idx = 1

\* C3: best_template returns none exactly when the repository is empty, and
\* the only template of a one-template repository whatever its score.
C3_NoneIffEmpty ==
    last.op = "best_template" =>
        /\ last.idx = 0 <=> templates = <<>>
        /\ Len(templates) = 1 => last.idx = 1

\* the only template is returned although it scores 0
C3_Witness ==
    /\ last.op = "best_template"
    /\ Len(templates) = 1
    /\ ScoreOf(1)[1] = 0
    /\ last.idx = 1

ExtractedFields == templates[last.idx].fields

Matches(k) == Search(ExtractedFields[k].v.pattern, last.text).found

\* the group rule k names exists in its pattern and took part in the match
GroupUsable(k) ==
    LET spec == ExtractedFields[k].v
    IN  MatchGroup(spec.pattern, last.text, Search(spec.pattern, last.text), spec.group).kind = "str"

RequiredMissing(k) == ExtractedFields[k].v.required /\ ~Matches(k)

\* C4 as stated: if a required field has no match, extract fails with
\* RequiredFieldMissing and yields no field values.
C4_RequiredMissingIsTheFailure ==
    (last.op = "extract" /\ \E k \in 1..Len(ExtractedFields) : RequiredMissing(k)) =>
        /\ ~last.out.ok
        /\ last.out.err = "RequiredFieldMissing"
        /\ last.out.v = <<>>

\* C4 amended: if a required field has no match, extract fails and yields no
\* field values at all; the failure is RequiredFieldMissing unless a field
\* processed before the first such required field has a match whose group
\* does not exist in its pattern or took no part in the match (then that
\* field's failure is the one raised).
C4_RequiredMissingFails ==
    (last.op = "extract" /\ \E k \in 1..Len(ExtractedFields) : RequiredMissing(k)) =>
        /\ ~last.out.ok
        /\ last.out.v = <<>>
        /\ \A k \in 1..Len(ExtractedFields) :
              (/\ RequiredMissing(k)
               /\ \A j \in 1..(k - 1) : ~RequiredMissing(j) /\ (Matches(j) => GroupUsable(j)))
              => last.out.err = "RequiredFieldMissing"

\* a field matched, a later required field did not: nothing is returned
C4_Witness ==
    /\ last.op = "extract"
    /\ \E k \in 2..Len(ExtractedFields) :
          RequiredMissing(k) /\ Matches(1) /\ GroupUsable(1)
    /\ last.out.err = "RequiredFieldMissing"
    /\ last.out.v = <<>>

\* C5: when extract succeeds the keys of the result are exactly the fields
\* whose pattern matched the text, each once: an optional field without a
\* match is absent, not present with an empty value.
C5_KeysAreTheMatchedFields ==
    (last.op = "extract" /\ last.out.ok) =>
        /\ Keys(last.out.v) = { ExtractedFields[k].k : k \in { j \in 1..Len(ExtractedFields) : Matches(j) } }
        /\ Len(last.out.v) = Cardinality(Keys(last.out.v))

\* a successful extraction with one field matched and one optional field absent
C5_Witness ==
    /\ last.op = "extract"
    /\ last.out.ok
    /\ \E k \in 1..Len(ExtractedFields) : Matches(k) /\ ExtractedFields[k].k \in Keys(last.out.v)
    /\ \E k \in 1..Len(ExtractedFields) :
          ~Matches(k) /\ ~ExtractedFields[k].v.required /\ ExtractedFields[k].k \notin Keys(last.out.v)

\* rule k names group 1 of a pattern without capturing groups
GroupMissing(k) ==
    NGroups(ExtractedFields[k].v.pattern.pattern) = 0 /\ ExtractedFields[k].v.group = 1

\* C6 as stated: a template with a rule that names group 1 of a pattern
\* without groups raises MalformedPattern on every extraction, on any text.
C6_BrokenRuleAlwaysRaises ==
    (last.op = "extract" /\ \E k \in 1..Len(ExtractedFields) : GroupMissing(k)) =>
        (~last.out.ok /\ last.out.err = "MalformedPattern")

\* C6 amended: a rule that names group 1 of a pattern without groups raises
\* MalformedPattern on every text that its pattern matches, provided no field
\* before it in the template fails first (a required field without a match,
\* or a match whose group is unusable); on a text its pattern does not match
\* the rule is treated like any unmatched field.
C6_BrokenRuleRaisesOnMatch ==
    last.op = "extract" =>
        \A k \in 1..Len(ExtractedFields) :
            (/\ GroupMissing(k)
             /\ Matches(k)
             /\ \A j \in 1..(k - 1) : ~RequiredMissing(j) /\ (Matches(j) => GroupUsable(j)))
            => (~last.out.ok /\ last.out.err = "MalformedPattern" /\ last.out.v = <<>>)

\* the broken rule is reached after a field that matched, and is surfaced
C6_Witness ==
    /\ last.op = "extract"
    /\ \E k \in 2..Len(ExtractedFields) :
          GroupMissing(k) /\ Matches(k) /\ Matches(1) /\ GroupUsable(1)
    /\ last.out.err = "MalformedPattern"

FieldTuple(field) ==
    <<field.k, field.v.pattern.pattern, field.v.group, field.v.transform, field.v.required>>

\* C7: a repository serialised by to_json and loaded again has the same
\* number of templates in the same order, each with the same name, keywords
\* and per-field (name, pattern source, group, transform, required).
C7_RoundTrip ==
    last.op = "load" =>
        /\ last.out.ok
        /\ Len(last.out.v) = Len(templates)
        /\ \A k \in 1..Len(templates) :
              /\ last.out.v[k].name = templates[k].name
              /\ last.out.v[k].keywords = templates[k].keywords
              /\ Len(last.out.v[k].fields) = Len(templates[k].fields)
              /\ \A j \in 1..Len(templates[k].fields) :
                    FieldTuple(last.out.v[k].fields[j]) = FieldTuple(templates[k].fields[j])

\* two templates were reloaded, one of them with a rule of group 0 and
\* keywords that its definition gave in upper case
C7_Witness ==
    /\ last.op = "load"
    /\ Len(last.out.v) = 2
    /\ \E k \in 1..2 : \E j \in 1..Len(templates[k].fields) :
          templates[k].fields[j].v.group = 0 /\ last.out.v[k].fields[j].v.group = 0
    /\ \E k \in 1..2 : templates[k].keywords = <<Lower(K_acme), Lower(K_invoice)>>

(***************************************************************************)
(* The learning session of learn.py and of the test: the template is       *)
(* learnt from a text and samples, built with from_dict, added to an       *)
(* empty repository and applied to a second text.                          *)
(***************************************************************************)
InitLearn ==
    /\ templates = <<>>
    /\ last = NoCall
    /\ \E doc \in LearnDocs : \E arg \in LearnArgs(doc) :
          LET n == SampleNumbers[doc[2]]
              d == SampleDates[doc[3]]
              t == SampleTotals[doc[4]]
          IN  \E field_samples \in Range(SampleVariants(n, d, t)) :
                learned = [stage |-> "input",
                           text |-> InvoiceText(doc[1], n, d, t),
                           name |-> NameArgs[arg[1]],
                           keywords |-> KeywordArgs[arg[2]],
                           samples |-> field_samples,
                           res |-> NoOut,
                           inferred |-> 0]

\* learn_template_from_text(text, name=, keywords=, field_samples=)
Learn ==
    /\ learned.stage = "input"
    /\ learned' = [learned EXCEPT
                     !.stage = "learned",
                     !.res = LearnTemplateFromText(learned.text, learned.name,
                                                   learned.keywords, learned.samples),
                     !.inferred = InferredFields(learned.text, learned.samples)]
    /\ UNCHANGED <<templates, last>>

\* repository.add(RegexInvoiceTemplate.from_dict(learned_template))
AddLearned ==
    /\ learned.stage = "learned"
    /\ learned.res.ok
    /\ TemplateFromDict(learned.res.v).ok
    /\ templates' = Append(templates, TemplateFromDict(learned.res.v).v)
    /\ last' = Call("add", <<>>, Len(templates) + 1, <<0, 1>>, NoOut)
    /\ learned' = [learned EXCEPT !.stage = "added"]

\* template.extract(new_text) on the learnt template
Apply(text) ==
    /\ learned.stage = "added"
    /\ last' = Call("extract", text, Len(templates), <<0, 1>>,
                    Extract(templates[Len(templates)], text))
    /\ learned' = [learned EXCEPT !.stage = "applied"]
    /\ UNCHANGED templates

NextLearn ==
    \/ Learn
    \/ AddLearned
    \/ \E doc \in ApplyDocs :
          Apply(InvoiceText(1, OtherNumbers[doc[1]], OtherDates[doc[2]], OtherTotals[doc[3]]))

SpecLearn == InitLearn /\ [][NextLearn]_vars

(***************************************************************************)
(* Properties of learn_template_from_text and of the learnt template       *)
(***************************************************************************)
\* the keywords of the returned definition
ReturnedKeywords ==
    [k \in 1..Len(learned.res.v.v.keywords.v) |-> learned.res.v.v.keywords.v[k].v]

\* the field names of the returned definition
ReturnedNames ==
    [k \in 1..Len(learned.res.v.v.fields.v) |-> learned.res.v.v.fields.v[k].k]

Returned == learned.stage # "input" /\ learned.res.ok

HasInvoice(keywords) == \E k \in 1..Len(keywords) : Lower(keywords[k]) = Invoice

\* the keywords argument without its empty entries
ExplicitKeywords == SelectSeq(learned.keywords, LAMBDA keyword : keyword # <<>>)

\* the header of the learning text
HeaderOf(text) ==
    Headers[CHOOSE h \in DOMAIN Headers :
               Slice(text, 1, Len(BeforeNumber(h)) + 1) = BeforeNumber(h)]

\* C8 as stated: the keyword list of every returned definition contains
\* "invoice", compared case-insensitively.
C8_KeywordsContainInvoice == Returned => HasInvoice(ReturnedKeywords)

\* C8 amended: with no non-empty explicit keyword the returned list is the
\* first non-blank line of the text, followed by "invoice" unless that line
\* is "invoice" ignoring case, and so contains "invoice"; with a non-empty
\* explicit keyword the list is the explicit non-empty keywords, unchanged.
C8_InvoiceAppendedToInferredOnly ==
    Returned =>
      IF ExplicitKeywords # <<>>
      THEN ReturnedKeywords = ExplicitKeywords
      ELSE /\ HasInvoice(ReturnedKeywords)
           /\ ReturnedKeywords =
                 IF Lower(HeaderOf(learned.text)) = Invoice
                 THEN <<HeaderOf(learned.text)>>
                 ELSE <<HeaderOf(learned.text), Invoice>>

C8_Witness ==
    /\ Returned
    /\ learned.keywords = <<>>
    /\ ReturnedKeywords = <<Headers[1], Invoice>>

\* the learning text is the invoice of header h and values n, d, t, and the
\* samples are those three values under the names of the test
LearntFrom(h, n, d, t) ==
    /\ learned.text = InvoiceText(h, n, d, t)
    /\ learned.samples = FullSamples(n, d, t)

\* the learnt template was applied to the invoice of values n2, d2, t2
AppliedTo(n2, d2, t2) ==
    /\ learned.stage = "applied"
    /\ last.op = "extract"
    /\ last.text = InvoiceText(1, n2, d2, t2)

\* the three fields with the values of the second text, the total without
\* its "$" and commas
SecondValues(n2, d2, t2) ==
    Ok(<<Item("invoice_number", n2), Item("invoice_date", d2),
         Item("total", Remove(Remove(t2, ","), "$"))>>)

\* an optional "-" and then one or more digits, nothing else
SignedDigits(s) ==
    LET body == IF s # <<>> /\ s[1] = "-" THEN Tail(s) ELSE s
    IN  body # <<>> /\ \A k \in 1..Len(body) : body[k] \in Digits

\* the first occurrence of value in text, ignoring case, is right after before
FirstAfter(text, value, before) == Find(Lower(text), Lower(value)) = Len(before) + 1

OnALine(text, value) ==
    \E k \in 1..Len(SplitLines(text)) :
        Contains(Lower(SplitLines(text)[k]), Lower(Strip(value)))

\* the positions of the samples whose value occurs on no line of the text
MissingSamples ==
    { k \in 1..Len(learned.samples) : ~OnALine(learned.text, learned.samples[k].v) }

\* the positions of the samples with an empty name or a blank value
InvalidSamples ==
    { k \in 1..Len(learned.samples) :
        learned.samples[k].k = "" \/ Strip(learned.samples[k].v) = <<>> }

SampleNames == [k \in 1..Len(learned.samples) |-> learned.samples[k].k]

\* C10 as stated: a sample value on no line of the text makes learning fail
\* with NotFound and return no definition; a returned definition has
\* exactly the field names of field_samples.
C10_MissingValueIsNotFound ==
    learned.stage # "input" =>
      /\ MissingSamples # {} =>
            ~learned.res.ok /\ learned.res.err = "NotFound" /\ learned.res.v = <<>>
      /\ learned.res.ok => ReturnedNames = SampleNames

\* C10 amended: a sample value on no line of the text makes learning fail
\* and return no definition; the failure is NotFound unless a sample at or
\* before the first such one has an empty name or a blank value, which
\* fails with InvalidInput first; a returned definition has exactly the
\* field names of field_samples, in their order.
C10_MissingValueFails ==
    learned.stage # "input" =>
      /\ MissingSamples # {} =>
            /\ ~learned.res.ok
            /\ learned.res.v = <<>>
            /\ learned.res.err =
                  IF \E j \in InvalidSamples : \A k \in MissingSamples : j <= k
                  THEN "InvalidInput" ELSE "NotFound"
      /\ learned.res.ok => ReturnedNames = SampleNames

\* the first two samples are learnt and the third is missing
C10_Witness ==
    /\ learned.stage = "learned"
    /\ MissingSamples = {3}
    /\ InvalidSamples = {}
    /\ ~learned.res.ok
    /\ learned.res.err = "NotFound"

\* the first position of a set of positions
First(positions) == CHOOSE k \in positions : \A j \in positions : k <= j

\* field_samples is empty, or has an empty name or a blank value
Offending == learned.samples = <<>> \/ InvalidSamples # {}

\* C11 as stated: empty field_samples, an empty field name or a blank
\* sample value makes learn_template_from_text fail with InvalidInput before
\* a pattern is inferred for any field, wherever the offending entry is.
C11_RejectedBeforeAnyInference ==
    (learned.stage # "input" /\ Offending) =>
        /\ ~learned.res.ok
        /\ learned.res.err = "InvalidInput"
        /\ learned.inferred = 0

\* C11 amended: the call fails and returns no definition; empty
\* field_samples is rejected with InvalidInput before any inference; an
\* entry with an empty name or a blank value is rejected with InvalidInput
\* before inference for it and for every later entry, but after a pattern
\* was inferred for every entry before it; and when an entry before it has
\* a value that is on no line of the text, the failure is the NotFound of
\* that earlier entry.
C11_RejectedInFieldOrder ==
    (learned.stage # "input" /\ Offending) =>
        /\ ~learned.res.ok
        /\ learned.res.v = <<>>
        /\ learned.samples = <<>> =>
              learned.res.err = "InvalidInput" /\ learned.inferred = 0
        /\ learned.samples # <<>> =>
              /\ learned.inferred = First(InvalidSamples \cup MissingSamples) - 1
              /\ learned.res.err =
                    IF First(InvalidSamples \cup MissingSamples) \in InvalidSamples
                    THEN "InvalidInput" ELSE "NotFound"

\* an empty name in third place is rejected after two fields were inferred
C11_Witness ==
    /\ learned.stage = "learned"
    /\ InvalidSamples = {3}
    /\ learned.samples[3].k = ""
    /\ learned.res.err = "InvalidInput"
    /\ learned.inferred = 2

(***************************************************************************)
(* Properties of loading a template document                               *)
(***************************************************************************)
\* a field entry the loader rejects: not a mapping, or without a string
\* `pattern`
MalformedEntry(entry) ==
    \/ entry.ty # "map"
    \/ "pattern" \notin DOMAIN entry.v
    \/ entry.v.pattern.ty # "str"

\* a definition without a `fields` mapping or with a malformed field entry
MalformedDef(def) ==
    /\ def.ty = "map"
    /\ \/ "fields" \notin DOMAIN def.v
       \/ def.v.fields.ty # "map"
       \/ \E i \in 1..Len(def.v.fields.v) : MalformedEntry(def.v.fields.v[i].v)

\* a well-formed field entry whose `group` is null
NullGroup(entry) ==
    ~MalformedEntry(entry) /\ "group" \in DOMAIN entry.v /\ entry.v.group.ty = "none"

\* a field entry of def with a null `group` comes before every malformed one
NullGroupFirst(def) ==
    /\ def.ty = "map"
    /\ "fields" \in DOMAIN def.v
    /\ def.v.fields.ty = "map"
    /\ \E i \in 1..Len(def.v.fields.v) :
          /\ NullGroup(def.v.fields.v[i].v)
          /\ \A j \in 1..(i - 1) : ~MalformedEntry(def.v.fields.v[j].v)

MalformedDefs == { k \in 1..Len(last.payloads) : MalformedDef(last.payloads[k]) }

Addable == { TemplateFromDict(Defs[d]).v : d \in { e \in DOMAIN Defs : TemplateFromDict(Defs[e]).ok } }

\* a step of add or extend leaves the templates held in place and puts the
\* added ones after them, in the order given
AppendedInOrder ==
    /\ last'.op = "add" =>
          \E template \in Addable : templates' = templates \o <<template>>
    /\ last'.op = "extend" =>
          \E first \in Addable, second \in Addable :
              templates' = templates \o <<first, second>>

\* templates held before the one best_template returned, under its name
EarlierNamesakes ==
    { i \in 1..(last.idx - 1) : templates[i].name = templates[last.idx].name }

\* C13: add and extend put the added templates after the ones held, in call
\* order, without removing, reordering or deduplicating; of two templates
\* with one name best_template returns the later one only for a text on
\* which it scores strictly higher than the earlier one.
C13_AppendedInCallOrder ==
    /\ [][AppendedInOrder]_vars
    /\ [](last.op = "best_template" /\ last.idx > 0 =>
             \A i \in EarlierNamesakes : Greater(ScoreOf(last.idx), ScoreOf(i)))

\* two templates named Acme are held and best_template returned the second
C13_Witness ==
    /\ Len(templates) = 2
    /\ templates[1].name = "Acme" /\ templates[2].name = "Acme"
    /\ templates[1] # templates[2]
    /\ last.op = "best_template"
    /\ last.idx = 2

(***************************************************************************)
(* The per-field outcomes that end an extraction                           *)
(***************************************************************************)
\* the group rule k names is not a group of its pattern
GroupAbsent(k) ==
    ExtractedFields[k].v.group > NGroups(ExtractedFields[k].v.pattern.pattern)

\* processing field k raises
Aborting(k) == RequiredMissing(k) \/ (Matches(k) /\ ~GroupUsable(k))

Aborters == { k \in 1..Len(ExtractedFields) : Aborting(k) }

\* C14 as stated: an extraction that returns no values was ended by a
\* required field without a match.
C14_OnlyRequiredMissingAborts ==
    (last.op = "extract" /\ ~last.out.ok) =>
        /\ last.out.err = "RequiredFieldMissing"
        /\ RequiredMissing(First(Aborters))

\* C14 amended: three outcomes of processing one field keep the values of
\* its siblings from being returned: a required field without a match
\* (RequiredFieldMissing), a match whose group is not a group of the pattern
\* (MalformedPattern), and a match whose group took no part in it
\* (AttributeError).  The extraction fails exactly when some field has one
\* of them, with the failure of the first such field; an optional field
\* without a match, or a match with a usable group, ends nothing.
C14_ThreeOutcomesAbort ==
    last.op = "extract" =>
        /\ last.out.ok <=> Aborters = {}
        /\ ~last.out.ok =>
              /\ last.out.v = <<>>
              /\ last.out.err =
                    IF ~Matches(First(Aborters)) THEN "RequiredFieldMissing"
                    ELSE IF GroupAbsent(First(Aborters)) THEN "MalformedPattern"
                    ELSE "AttributeError"

\* a template without required fields: its first field has a value, the
\* group of its second took no part in the match, and nothing is returned
C14_Witness ==
    /\ last.op = "extract"
    /\ Len(ExtractedFields) = 2
    /\ \A k \in 1..Len(ExtractedFields) : ~ExtractedFields[k].v.required
    /\ Matches(1) /\ GroupUsable(1)
    /\ Aborters = {2}
    /\ ~last.out.ok
    /\ last.out.err = "AttributeError"
    /\ last.out.v = <<>>

(***************************************************************************)
(* The functions of the package applied to values of their own.  `last` is *)
(* the call: the function, its arguments, and once it has been applied     *)
(* (op is the name of the function) its result.                            *)
(***************************************************************************)
MaxValueLen == 3

\* the characters of a captured value: white space, the characters the
\* transforms replace, a digit and a letter
ValueChars == {" ", "\n", ",", "$", "1", "a"}

RECURSIVE StringsOver(_, _)
StringsOver(chars, n) ==
    IF n = 0 THEN {<<>>}
    ELSE StringsOver(chars, n - 1)
         \cup { Append(s, c) : s \in { t \in StringsOver(chars, n - 1) : Len(t) = n - 1 },
                               c \in chars }

CapturedValues == StringsOver(ValueChars, MaxValueLen)

\* the transforms of a rule: the four names, one in another case, none
Transforms == {T_currency, T_number, T_date, T_text, T_Currency, <<>>}

MaxSampleLen == 3

\* the characters of the short sample values
SampleChars == {"$", "-", "1", ",", ".", "a"}

Days == { <<"1">>, <<"1","2">> }

Years == { <<"2">>, <<"2","3">>, <<"2","0","2","3">>, <<"2","0","2","3","4">> }

\* day, month and year with '/' or '-' between them
NumericDates ==
    { day \o <<first>> \o month \o <<second>> \o year :
        day \in Days, first \in {"/", "-"}, month \in Days,
        second \in {"/", "-"}, year \in Years }

\* sample values of every shape, and values just outside a shape
ShapedValues ==
    { <<"1",".","2","3","4">>, <<"$","1",".","2","3","4">>, <<"-","1",",","2",".","5","0">>,
      <<"$","-","1",",","2","3","4",".","0","0">>, <<"-","$","1">>, <<"1",".","5"," ">>,
      <<" ","$","5">>, <<"$"," ","5">>, <<",","1">>,
      <<"J","a","n"," ","5",","," ","2","0","2","3">>, <<"J","a","n"," ","5"," ","2","3">>,
      <<"J","a"," ","5"," ","2","3">>, <<"J","a","n"," ","5",",","2","3">>,
      <<"S","e","p","t","e","m","b","e","r"," ","1","2"," ","2","0","2","3">>,
      <<"I","N","V","-","7">>, <<"N","e","t"," ","3","0">>, <<"#","7","/","a">>,
      <<"a",":","b">>, <<"a","\t","b">>, <<"1","\n","2">> }

\* the sample values given to derive_field: none of them blank
SampleValues ==
    { value \in StringsOver(SampleChars, MaxSampleLen) \cup NumericDates \cup ShapedValues :
        Strip(value) # <<>> }

GuessInput(value) ==
    [op |-> "input", fn |-> "derive_field", value |-> value,
     transform |-> <<>>, out |-> <<>>]

MaxLines == 3

\* the lines of the texts searched: a label before the value, the value
\* alone, the value after white space, an empty and a blank line, a label
TextLines ==
    { <<"N","o",":"," ","4","2">>, <<"4","2","a">>, <<" "," ","4","2"," ">>,
      <<>>, <<" "," ">>, <<"T","o","t","a","l">> }

RECURSIVE LineLists(_)
LineLists(n) ==
    IF n = 0 THEN {<<>>}
    ELSE LineLists(n - 1)
         \cup { Append(lines, line) : lines \in { l \in LineLists(n - 1) : Len(l) = n - 1 },
                                      line \in TextLines }

\* "\n".join(lines)
RECURSIVE JoinLines(_)
JoinLines(lines) ==
    IF lines = <<>> THEN <<>>
    ELSE IF Len(lines) = 1 THEN lines[1]
    ELSE lines[1] \o <<"\n">> \o JoinLines(Tail(lines))

\* the sample values looked for: on a line, in another case, with white
\* space around them, blank, on no line
SearchedValues ==
    { <<"4","2">>, <<"4","2","A">>, <<" ","4","2"," "," ">>, <<"n","O",":"," ","4","2">>,
      <<"t","o","t","a","l">>, <<>>, <<" "," ">>, <<"9","9">> }

FindInput(lines, value) ==
    [op |-> "input", fn |-> "_find_best_line", value |-> value,
     transform |-> <<>>, out |-> <<>>, lines |-> lines, text |-> JoinLines(lines)]

LoadInput(payloads) ==
    [op |-> "input", fn |-> "from_json_file", payloads |-> payloads, out |-> <<>>]

TransformInput(value, transform) ==
    [op |-> "input", fn |-> "_apply_transform", value |-> value,
     transform |-> transform, out |-> <<>>]

InitFunctions ==
    /\ templates = <<>>
    /\ learned = NoSession
    /\ last \in { TransformInput(value, transform) :
                     value \in CapturedValues, transform \in Transforms }
                 \cup { GuessInput(value) : value \in SampleValues }
                 \cup { FindInput(lines, value) :
                          lines \in LineLists(MaxLines), value \in SearchedValues }
                 \cup { LoadInput(payloads) : payloads \in Documents }

\* _apply_transform(value, transform)
TransformCall ==
    /\ last.op = "input"
    /\ last.fn = "_apply_transform"
    /\ last' = [last EXCEPT !.op = "_apply_transform",
                            !.out = ApplyTransform(last.value, last.transform)]
    /\ UNCHANGED <<templates, learned>>

\* the value pattern and the transform derive_field takes for a sample
GuessCall ==
    /\ last.op = "input"
    /\ last.fn = "derive_field"
    /\ last' = [last EXCEPT !.op = "derive_field",
                            !.out = [value_pattern |-> GuessValuePattern(last.value),
                                     transform |-> GuessTransform(last.value)]]
    /\ UNCHANGED <<templates, learned>>

\* _find_best_line(text, value), the first step of derive_field
FindCall ==
    /\ last.op = "input"
    /\ last.fn = "_find_best_line"
    /\ last' = [last EXCEPT !.op = "_find_best_line",
                            !.out = FindBestLine(last.text, last.value)]
    /\ UNCHANGED <<templates, learned>>

\* TemplateRepository.from_json_file on a parsed template document
LoadCall ==
    /\ last.op = "input"
    /\ last.fn = "from_json_file"
    /\ last' = [last EXCEPT !.op = "from_json_file",
                            !.out = LoadTemplates(MapV([templates |-> ListV(last.payloads)]))]
    /\ UNCHANGED <<templates, learned>>

NextFunctions ==
    \/ TransformCall
    \/ GuessCall
    \/ FindCall
    \/ LoadCall

SpecFunctions == InitFunctions /\ [][NextFunctions]_vars

(***************************************************************************)
(* Properties of _apply_transform                                          *)
(***************************************************************************)
\* s without the characters of removed
Without(s, removed) == SelectSeq(s, LAMBDA c : c \notin removed)

\* r is s without the white space around it
IsTrimOf(r, s) ==
    /\ r = <<>> \/ (r[1] \notin Whitespace /\ r[Len(r)] \notin Whitespace)
    /\ \E before \in 0..(Len(s) - Len(r)) :
          /\ r = SubSeq(s, before + 1, before + Len(r))
          /\ \A k \in 1..before : s[k] \in Whitespace
          /\ \A k \in (before + Len(r) + 1)..Len(s) : s[k] \in Whitespace

\* C16: the applied transform returns, without white space around it: for
\* currency the value without its ',' and '$'; for number the value without
\* its ','; for date the value with a space for each newline; for text the
\* value itself.
C16_TransformResult ==
    last.op = "_apply_transform" =>
        /\ last.transform = T_currency =>
              IsTrimOf(last.out, Without(last.value, {",", "$"}))
        /\ last.transform = T_number =>
              IsTrimOf(last.out, Without(last.value, {","}))
        /\ last.transform = T_date =>
              IsTrimOf(last.out, [k \in 1..Len(last.value) |->
                                     IF last.value[k] = "\n" THEN " " ELSE last.value[k]])
        /\ last.transform = T_text => IsTrimOf(last.out, last.value)
        /\ last.transform \in {T_currency, T_number, T_date, T_text} =>
              \/ last.out = <<>>
              \/ last.out[1] \notin Whitespace /\ last.out[Len(last.out)] \notin Whitespace

\* a currency value whose '$' is followed by a space: "$ 1" gives "1"
C16_Witness ==
    /\ last.op = "_apply_transform"
    /\ last.transform = T_currency
    /\ last.value = <<"$", " ", "1">>
    /\ last.out = <<"1">>

(***************************************************************************)
(* Properties of the classification of a sample value                      *)
(***************************************************************************)
AllIn(s, chars) == \A k \in 1..Len(s) : s[k] \in chars

\* a digit followed by digits and commas
DigitGroup(s) == s # <<>> /\ s[1] \in Digits /\ AllIn(s, Digits \cup {","})

\* a digit group, with or without a '.' and from..to digits after it
Unsigned(s, from, to) ==
    \/ DigitGroup(s)
    \/ \E p \in 1..Len(s) :
          /\ s[p] = "."
          /\ DigitGroup(SubSeq(s, 1, p - 1))
          /\ (Len(s) - p) \in from..to
          /\ AllIn(SubSeq(s, p + 1, Len(s)), Digits)

Signed(s, from, to) ==
    \/ Unsigned(s, from, to)
    \/ s # <<>> /\ s[1] = "-" /\ Unsigned(Tail(s), from, to)

CurrencyShape(s) ==
    \/ Signed(s, 1, 2)
    \/ s # <<>> /\ s[1] = "$" /\ Signed(Tail(s), 1, 2)

NumberShape(s) == Signed(s, 1, Len(s))

\* D{1,2}[/-]D{1,2}[/-]D{2,4}, or 3 to 9 letters, a day, an optional comma
\* and a year with white space between them
DateShape(s) ==
    \/ \E p \in 2..3, q \in 4..6 :
          /\ q < Len(s) /\ s[p] \in {"/", "-"} /\ s[q] \in {"/", "-"}
          /\ (q - p - 1) \in 1..2 /\ (Len(s) - q) \in 2..4
          /\ AllIn(SubSeq(s, 1, p - 1), Digits)
          /\ AllIn(SubSeq(s, p + 1, q - 1), Digits)
          /\ AllIn(SubSeq(s, q + 1, Len(s)), Digits)
    \/ \E a \in 3..9, b \in 1..Len(s), c \in 1..Len(s), d \in 1..Len(s) :
          /\ a < b /\ b < c /\ c < d /\ d <= Len(s)
          /\ AllIn(SubSeq(s, 1, a), Letters)
          /\ AllIn(SubSeq(s, a + 1, b), Whitespace)
          /\ (c - b) \in 1..3
          /\ \/ (c - b) \in 1..2 /\ AllIn(SubSeq(s, b + 1, c), Digits)
             \/ (c - b) \in 2..3 /\ AllIn(SubSeq(s, b + 1, c - 1), Digits) /\ s[c] = ","
          /\ AllIn(SubSeq(s, c + 1, d), Whitespace)
          /\ (Len(s) - d) \in 2..4
          /\ AllIn(SubSeq(s, d + 1, Len(s)), Digits)

\* the first class, in the order currency, number, date, text, whose shape
\* the trimmed sample has
ClassOf(s) ==
    IF CurrencyShape(s) THEN T_currency
    ELSE IF NumberShape(s) THEN T_number
    ELSE IF DateShape(s) THEN T_date
    ELSE T_text

\* the value patterns of a class
PatternsOf(class) ==
    CASE class = T_currency -> {CurrencyValuePattern}
      [] class = T_number -> {NumberValuePattern}
      [] class = T_date -> {DateValuePattern}
      [] OTHER -> {TokenValuePattern, WideValuePattern, LineValuePattern}

\* C15: the value pattern and the transform derive_field takes for a
\* sample are those of one class, the first in the order currency, number,
\* date, text whose shape the trimmed sample has; a sample of currency shape
\* is never given the pattern or the transform of a number.
C15_PatternAndTransformAgree ==
    last.op = "derive_field" =>
        /\ last.out.transform = ClassOf(Strip(last.value))
        /\ last.out.value_pattern \in PatternsOf(ClassOf(Strip(last.value)))
        /\ CurrencyShape(Strip(last.value)) =>
              /\ last.out.transform # T_number
              /\ last.out.value_pattern # NumberValuePattern

\* "1.5" has the shape of a currency amount and of a number: it is a
\* currency amount for both
C15_Witness ==
    /\ last.op = "derive_field"
    /\ last.value = <<"1", ".", "5", " ">>
    /\ NumberShape(Strip(last.value))
    /\ last.out.transform = T_currency
    /\ last.out.value_pattern = CurrencyValuePattern

(***************************************************************************)
(* Properties of the search for the line of a sample value                 *)
(***************************************************************************)
\* one character, or the two cases of one letter
SameLetter(a, b) ==
    a = b \/ \E k \in DOMAIN UpperChars : {a, b} = {UpperChars[k], LowerChars[k]}

\* the positions of line at which value stands, whatever the case
Occurrences(line, value) ==
    { p \in 1..(Len(line) - Len(value) + 1) :
        \A i \in 1..Len(value) : SameLetter(line[p + i - 1], value[i]) }

\* the lines of the text searched that hold value
LinesWith(value) == { k \in 1..Len(last.lines) : Occurrences(last.lines[k], value) # {} }

\* the characters of the first line with value that come before value
Before(value) ==
    SubSeq(last.lines[First(LinesWith(value))], 1,
           First(Occurrences(last.lines[First(LinesWith(value))], value)) - 1)

\* the lines above the first line with value that are not blank
NonBlankAbove(value) ==
    { k \in 1..(First(LinesWith(value)) - 1) : ~AllIn(last.lines[k], Whitespace) }

\* C17 as stated: the first line that holds the sample value, whatever the
\* case, is used with the characters before the value as prefix; the call
\* fails with NotFound exactly when no line holds the sample value.
C17_FirstLineAndItsPrefix ==
    last.op = "_find_best_line" =>
        IF LinesWith(last.value) = {}
        THEN ~last.out.ok /\ last.out.err = "NotFound"
        ELSE /\ last.out.ok
             /\ last.out.v.line = last.lines[First(LinesWith(last.value))]
             /\ last.out.v.prefix = Before(last.value)

\* C17 amended: the value looked for is the sample without the white
\* space around it.  A blank sample fails with InvalidInput.  Otherwise the
\* call fails with NotFound exactly when no line holds the value, and uses
\* the first line that holds it, whatever the case; the prefix is the
\* characters of that line before the value, unless these are all white
\* space and a line above is not blank: then it is the nearest such line,
\* without the white space around it, and a space.
C17_FirstLineOfTrimmedValue ==
    last.op = "_find_best_line" =>
        IF Strip(last.value) = <<>>
        THEN ~last.out.ok /\ last.out.err = "InvalidInput"
        ELSE IF LinesWith(Strip(last.value)) = {}
        THEN ~last.out.ok /\ last.out.err = "NotFound"
        ELSE /\ last.out.ok
             /\ last.out.v.line = last.lines[First(LinesWith(Strip(last.value)))]
             /\ last.out.v.prefix =
                   IF /\ AllIn(Before(Strip(last.value)), Whitespace)
                      /\ NonBlankAbove(Strip(last.value)) # {}
                   THEN Strip(last.lines[CHOOSE k \in NonBlankAbove(Strip(last.value)) :
                                  \A j \in NonBlankAbove(Strip(last.value)) : j <= k])
                        \o <<" ">>
                   ELSE Before(Strip(last.value))

\* the value stands at the start of its line, under a blank line and a
\* label: the prefix is the label and a space
C17_Witness ==
    /\ last.op = "_find_best_line"
    /\ last.lines = << <<"T","o","t","a","l">>, <<" "," ">>, <<"4","2","a">> >>
    /\ last.value = <<"4","2","A">>
    /\ last.out.ok
    /\ last.out.v.line = <<"4","2","a">>
    /\ last.out.v.prefix = <<"T","o","t","a","l"," ">>

(***************************************************************************)
(* Matching and extraction leave the repository as it is                   *)
(***************************************************************************)
Readers == {"match_score", "best_template", "extract", "extract_from_text"}

\* C18: match_score, best_template, extract and extract_from_text leave the
\* sequence of templates and every template's name, keywords and field
\* rules unchanged, and their result is the one the text and the templates
\* held determine, whatever was processed before.
C18_ReadersLeaveTemplates ==
    /\ [][last'.op \in Readers => templates' = templates]_vars
    /\ [](/\ last.op = "match_score" =>
               last.score = MatchScore(templates[last.idx], last.text)
          /\ last.op = "best_template" =>
               last.idx = BestTemplate(templates, last.text)
          /\ last.op = "extract" =>
               last.out = Extract(templates[last.idx], last.text)
          /\ last.op = "extract_from_text" =>
               last.out = ExtractFromText(templates, last.text, last.confidence_threshold))

\* the second of two templates was the best one for a text
C18_Witness ==
    /\ last.op = "best_template"
    /\ Len(templates) = 2
    /\ last.idx = 2
    /\ templates[1].name # templates[2].name

(***************************************************************************)
(* Properties of extract_from_text                                         *)
(***************************************************************************)
\* the template best_template returns for the text, and its score
BestIndex == BestTemplate(templates, last.text)

BestOne == templates[BestIndex]

BestScore == MatchScore(BestOne, last.text)

\* the best template reaches the threshold
Confident == BestIndex > 0 /\ ~Greater(last.confidence_threshold, BestScore)

\* C19 as stated: extract_from_text returns a result whatever extract
\* does; template_name is set exactly when the best template scores at
\* least confidence_threshold; without a template_name confidence is 0 and
\* fields is empty; with one, confidence is the template's match_score and
\* fields is the whole result of extract, or empty if extract raised.
C19_AlwaysReturnsAResult ==
    last.op = "extract_from_text" =>
        /\ last.out.ok
        /\ (last.out.v.template_name.ty = "str") <=> Confident
        /\ ~Confident =>
              /\ SameScore(last.out.v.confidence, <<0, 1>>)
              /\ last.out.v.fields = <<>>
        /\ Confident =>
              /\ last.out.v.template_name = StrV(BestOne.name)
              /\ last.out.v.confidence = BestScore
              /\ last.out.v.fields =
                    IF Extract(BestOne, last.text).ok
                    THEN Extract(BestOne, last.text).v ELSE <<>>

\* what the code does: the above, except that the AttributeError of a
\* group that took no part in the match leaves extract_from_text, which
\* then returns no result.
C19_ReturnsUnlessNoneGroup ==
    last.op = "extract_from_text" =>
        IF Confident /\ Extract(BestOne, last.text) = Raise("AttributeError")
        THEN last.out = Raise("AttributeError")
        ELSE /\ last.out.ok
             /\ (last.out.v.template_name.ty = "str") <=> Confident
             /\ ~Confident =>
                   /\ SameScore(last.out.v.confidence, <<0, 1>>)
                   /\ last.out.v.fields = <<>>
             /\ Confident =>
                   /\ last.out.v.template_name = StrV(BestOne.name)
                   /\ last.out.v.confidence = BestScore
                   /\ last.out.v.fields =
                         IF Extract(BestOne, last.text).ok
                         THEN Extract(BestOne, last.text).v ELSE <<>>

\* the best template reaches the threshold and a required field of it has
\* no match: the result names the template and has no fields
C19_Witness ==
    /\ last.op = "extract_from_text"
    /\ Confident
    /\ Extract(BestOne, last.text) = Raise("RequiredFieldMissing")
    /\ last.out.ok
    /\ last.out.v.template_name = StrV(BestOne.name)
    /\ last.out.v.fields = <<>>

====
